---- MODULE Spec2Model ----
(***************************************************************************)
(* Model of the Kora SDK sandbox authorization engine                      *)
(* (python/src/kora/kora_sandbox.py, class SandboxEngine).                 *)
(*                                                                         *)
(* Python values are records [t, s, n]: t is the Python type, s the text   *)
(* of a str as a tuple of one-character strings, n the number of an int    *)
(* or float.  Optional values are tuples: None == <<>>, Some(x) == <<x>>.  *)
(***************************************************************************)
EXTENDS Integers, Sequences, FiniteSets, TLC

\* ------------------------------------------------------------------ bounds
MaxLimit == 2
MaxCap == 1
MaxAmount == 2
MaxDay == 3
DaysInMonth == 2
MaxJsonInt == 2
MaxListLen == 2
MaxMsgLen == 2
MaxRetries == 2
MaxCalls == 2
MaxObserves == 3

\* ------------------------------------------------------- Python values
None == <<>>
Some(x) == <<x>>
IsNone(o) == Len(o) = 0
Get(o) == o[1]

PyStr(s) == [t |-> "str", s |-> s, n |-> 0]
PyInt(n) == [t |-> "int", s |-> <<>>, n |-> n]
PyFloat(n) == [t |-> "float", s |-> <<>>, n |-> n]
PyNone == [t |-> "NoneType", s |-> <<>>, n |-> 0]

\* bool(v): the truth value Python gives v in `not v`
Truthy(v) ==
    CASE v.t = "str" -> Len(v.s) > 0
      [] v.t = "int" -> v.n # 0
      [] v.t = "float" -> v.n # 0
      [] OTHER -> FALSE

\* the upper-case form of each lower-case letter, and the reverse
ToUpper ==
    [a |-> "A", b |-> "B", c |-> "C", d |-> "D", e |-> "E", f |-> "F", g |-> "G",
     h |-> "H", i |-> "I", j |-> "J", k |-> "K", l |-> "L", m |-> "M", n |-> "N",
     o |-> "O", p |-> "P", q |-> "Q", r |-> "R", s |-> "S", t |-> "T", u |-> "U",
     v |-> "V", w |-> "W", x |-> "X", y |-> "Y", z |-> "Z"]
ToLower ==
    [A |-> "a", B |-> "b", C |-> "c", D |-> "d", E |-> "e", F |-> "f", G |-> "g",
     H |-> "h", I |-> "i", J |-> "j", K |-> "k", L |-> "l", M |-> "m", N |-> "n",
     O |-> "o", P |-> "p", Q |-> "q", R |-> "r", S |-> "s", T |-> "t", U |-> "u",
     V |-> "v", W |-> "w", X |-> "x", Y |-> "y", Z |-> "z"]
Whitespace == {" "}

UpperChar(c) == IF c \in DOMAIN ToUpper THEN ToUpper[c] ELSE c

LowerChar(c) == IF c \in DOMAIN ToLower THEN ToLower[c] ELSE c

\* str.upper(), str.lower(), str.strip()
Upper(s) == [i \in 1..Len(s) |-> UpperChar(s[i])]
Lower(s) == [i \in 1..Len(s) |-> LowerChar(s[i])]

RECURSIVE LStrip(_)
LStrip(s) == IF Len(s) > 0 /\ s[1] \in Whitespace THEN LStrip(Tail(s)) ELSE s

RECURSIVE RStrip(_)
RStrip(s) ==
    IF Len(s) > 0 /\ s[Len(s)] \in Whitespace
    THEN RStrip(SubSeq(s, 1, Len(s) - 1))
    ELSE s

Strip(s) == RStrip(LStrip(s))

IsLetter(c) == c \in DOMAIN ToUpper \/ c \in DOMAIN ToLower

\* ------------------------------------------------------------- calendar
\* A UTC date is a day number; months have DaysInMonth days.
DayOfMonth(d) == (d % DaysInMonth) + 1
MonthOf(d) == d \div DaysInMonth

\* ------------------------------------------------------------ the inputs
EUR == <<"E", "U", "R">>
VendorA == <<"a">>
VendorB == <<"b">>
\* a vendor written with a trailing blank
VendorPadded == <<"c", " ">>

Request(v, a, c) == [vendor |-> v, amount_cents |-> a, currency |-> c]

USD == <<"U", "S", "D">>

\* values that pass the input validation, whatever the mandate
GoodVendors == {PyStr(VendorA), PyStr(VendorB)}
GoodAmounts == {PyInt(n) : n \in 1..MaxAmount}
GoodCurrencies == {PyStr(EUR), PyStr(USD)}

\* other spellings that pass the input validation: letter case, blanks,
\* a currency of three characters that are not all letters
Spellings ==
    {Request(PyStr(<<"A", " ">>), a, PyStr(<<"e", "u", "r">>)) : a \in GoodAmounts}
    \cup {Request(PyStr(<<" ">>), a, PyStr(EUR)) : a \in GoodAmounts}
    \cup {Request(PyStr(VendorA), a, PyStr(<<"E", "1", "R">>)) : a \in GoodAmounts}
    \cup {Request(PyStr(VendorPadded), a, PyStr(EUR)) : a \in GoodAmounts}

\* values the input validation is written to reject
BadVendors == {PyStr(<<>>), PyNone}
BadAmounts == {PyInt(0), PyInt(-1), PyFloat(1)}
BadCurrencies == {PyStr(<<"E", "U", "R", "O">>), PyStr(<<>>), PyNone}

\* the requests the caller makes
Requests ==
    {Request(v, a, c) : v \in GoodVendors, a \in GoodAmounts, c \in GoodCurrencies}
    \cup Spellings
    \cup {Request(PyStr(VendorA), a, PyStr(EUR)) : a \in BadAmounts}
    \cup {Request(v, PyInt(MaxAmount), PyStr(EUR)) : v \in BadVendors}
    \cup {Request(PyStr(VendorA), PyInt(MaxAmount), c) : c \in BadCurrencies}
    \cup {Request(PyNone, PyFloat(1), PyNone)}

Limits == 0..MaxLimit
Caps == {None} \cup {Some(n) : n \in 1..MaxCap}
AllowLists == {None, Some({VendorA, VendorPadded})}

\* two callers of one engine
Threads == {"t1", "t2"}
RaceRequests == {Request(PyStr(VendorA), a, PyStr(EUR)) : a \in GoodAmounts}

VARIABLES
    daily_limit, monthly_limit, currency, per_tx_max, allowed_vendors,
    daily_spent, monthly_spent, tx_count, warned, start_date,
    today, stderr, call, ret, approved_today,
    pc, req, loc, result, kora, retries

vars == <<daily_limit, monthly_limit, currency, per_tx_max, allowed_vendors,
          daily_spent, monthly_spent, tx_count, warned, start_date,
          today, stderr, call, ret, approved_today, pc, req, loc, result, kora,
          retries>>

\* retries is a history variable: the number of re-submissions made so far
\* in a chain of calls that each follow the retry_with of the one before.
\* approved_today is a history variable: the sum of the amounts of the
\* APPROVED spends made on the date `today` since the engine was built or
\* last reset.

\* the state of the threads that call spend at the same time: where each
\* is in spend, its arguments, its local variables, what it returned
thr == <<pc, req, loc, result>>

config == <<daily_limit, monthly_limit, currency, per_tx_max, allowed_vendors>>

\* --------------------------------------------------------- SandboxEngine
SANDBOX_PAYMENT == [iban |-> "XX00SANDBOX0000000001", bic |-> "SANDBOXXXX",
                    name |-> "Sandbox Vendor"]

NoCall == [op |-> "none", vendor |-> PyNone, amount_cents |-> PyNone, currency |-> PyNone]
NoRet == [kind |-> "none"]
NoLocals == [today |-> 0, daily_remaining |-> 0, monthly_remaining |-> 0, tmp |-> 0]

\* kora is the Kora client (client.py) and the authorize call it is in;
\* no client is built where the engine or a function of crypto.py is called
NoKora == [pc |-> "none"]

\* SandboxEngine.__init__ with a sandbox_config chosen by the caller
Init ==
    /\ daily_limit \in Limits
    /\ monthly_limit \in Limits
    /\ currency = EUR
    /\ per_tx_max \in Caps
    /\ allowed_vendors \in AllowLists
    /\ daily_spent = 0
    /\ monthly_spent = 0
    /\ tx_count = 0
    /\ warned = FALSE
    /\ today = 0
    /\ start_date = today
    /\ stderr = 0
    /\ call = NoCall
    /\ ret = NoRet
    /\ approved_today = 0
    /\ pc = [t \in Threads |-> "idle"]
    /\ req = [t \in Threads |-> Request(PyNone, PyNone, PyNone)]
    /\ loc = [t \in Threads |-> NoLocals]
    /\ kora = NoKora /\ retries = 0
    /\ result = [t \in Threads |-> NoRet]

\* mutation: the warning is printed but the flag is not set
WarnOnce_flag_not_set(w) == [printed |-> IF ~w THEN 1 ELSE 0, warned |-> w]

\* _warn_once: the number of lines printed and the new flag
WarnOnce(w) == [printed |-> IF ~w THEN 1 ELSE 0, warned |-> TRUE]

\* mutation: the rollover does not store the new day
AutoResetIfNewDay_keeps_day(d, m, sd, now) ==
    IF now # sd
    THEN [daily_spent |-> 0,
          monthly_spent |-> IF DayOfMonth(now) = 1 THEN 0 ELSE m,
          start_date |-> sd]
    ELSE [daily_spent |-> d, monthly_spent |-> m, start_date |-> sd]

\* mutation: on the first of a month the monthly counter alone is zeroed
AutoResetIfNewDay_month_only(d, m, sd, now) ==
    IF now # sd
    THEN [daily_spent |-> IF DayOfMonth(now) = 1 THEN d ELSE 0,
          monthly_spent |-> IF DayOfMonth(now) = 1 THEN 0 ELSE m,
          start_date |-> now]
    ELSE [daily_spent |-> d, monthly_spent |-> m, start_date |-> sd]

\* _auto_reset_if_new_day: the counters and the stored day it leaves
AutoResetIfNewDay(d, m, sd, now) ==
    IF now # sd
    THEN [daily_spent |-> 0,
          monthly_spent |-> IF DayOfMonth(now) = 1 THEN 0 ELSE m,
          start_date |-> now]
    ELSE [daily_spent |-> d, monthly_spent |-> m, start_date |-> sd]

\* the input validation of spend: the ValueError it raises, or "ok"
Validate(vendor, amount_cents, cur) ==
    IF ~(amount_cents.t = "int") \/ amount_cents.n <= 0
    THEN "amount_cents must be a positive integer"
    ELSE IF ~Truthy(vendor) \/ ~(vendor.t = "str")
    THEN "vendor must be a non-empty string"
    ELSE IF ~Truthy(cur) \/ ~(cur.t = "str") \/ Len(cur.s) # 3
    THEN "currency must be a 3-letter ISO 4217 code"
    ELSE "ok"

NormCurrency(cur) == Upper(cur.s)

\* mutation: the vendor is stripped but keeps its letter case
NormVendor_keeps_case(vendor) == Strip(vendor.s)

NormVendor(vendor) == Lower(Strip(vendor.s))

\* mutation: a denial is raised as an exception
BuildDenied_raised(reason_code, suggestion, retry_with, d, m) ==
    [kind |-> "raise", exc |-> "KoraDenialError", message |-> reason_code]

\* _build_denied
BuildDenied(reason_code, suggestion, retry_with, d, m) ==
    [kind |-> "record",
     approved |-> FALSE,
     decision |-> "DENIED",
     reason_code |-> reason_code,
     suggestion |-> suggestion,
     retry_with |-> retry_with,
     payment |-> None,
     executable |-> FALSE,
     seal |-> None,
     raw |-> [sandbox |-> TRUE, decision |-> "DENIED", reason_code |-> reason_code,
              limits_current |-> [daily_spent_cents |-> d,
                                  daily_limit_cents |-> daily_limit,
                                  monthly_spent_cents |-> m,
                                  monthly_limit_cents |-> monthly_limit]]]

\* the APPROVED record of spend, built after the counters were incremented
BuildApproved(amount, cur, vendor, d, m) ==
    [kind |-> "record",
     approved |-> TRUE,
     decision |-> "APPROVED",
     reason_code |-> "OK",
     suggestion |-> None,
     retry_with |-> None,
     payment |-> Some(SANDBOX_PAYMENT),
     executable |-> TRUE,
     enforcement_mode |-> "enforce",
     amount_cents |-> amount,
     currency |-> cur,
     vendor_id |-> vendor,
     seal |-> Some([algorithm |-> "Ed25519", public_key_id |-> "sandbox_key_v1"]),
     raw |-> [sandbox |-> TRUE, decision |-> "APPROVED", reason_code |-> "OK",
              limits_after_approval |->
                  [daily_remaining_cents |-> daily_limit - d,
                   monthly_remaining_cents |-> monthly_limit - m]]]

\* mutation: the currency check is left out
CurrencyCheck_skipped(cur) == FALSE

CurrencyCheck(cur) == cur # currency

\* mutation: a mandate without allow-list is treated as one allowing nobody
VendorCheck_none_allows_nobody(vendor) ==
    IsNone(allowed_vendors) \/ vendor \notin Get(allowed_vendors)

VendorCheck(vendor) == ~IsNone(allowed_vendors) /\ vendor \notin Get(allowed_vendors)

\* mutation: an amount equal to the cap is denied
PerTxCheck_at_cap(amount) == ~IsNone(per_tx_max) /\ amount >= Get(per_tx_max)

PerTxCheck(amount) == ~IsNone(per_tx_max) /\ amount > Get(per_tx_max)

\* mutation: the daily check ignores what was already spent
DailyCheck_ignores_spent(amount, d) == amount > daily_limit

\* mutation: an amount equal to the remaining daily budget is denied
DailyCheck_at_remaining(amount, d) == amount >= daily_limit - d

DailyCheck(amount, d) == amount > daily_limit - d

MonthlyCheck(amount, m) == amount > monthly_limit - m

\* mutation: the approval forgets the monthly counter
Commit_daily_only(amount, d, m, tx) ==
    [daily_spent |-> d + amount, monthly_spent |-> m, tx_count |-> tx + 1]

\* mutation: the increment depends on how many approvals came before
Commit_every_other(amount, d, m, tx) ==
    [daily_spent |-> d + (IF tx % 2 = 0 THEN amount ELSE 0),
     monthly_spent |-> m + (IF tx % 2 = 0 THEN amount ELSE 0),
     tx_count |-> tx + 1]

\* the counter increments of an approval
Commit(amount, d, m, tx) ==
    [daily_spent |-> d + amount, monthly_spent |-> m + amount, tx_count |-> tx + 1]

\* the evaluation pipeline of spend on validated, normalized inputs:
\* the record returned and the counters left
Evaluate(vendor, amount, cur, d, m, tx) ==
    LET daily_remaining == daily_limit - d
        monthly_remaining == monthly_limit - m
        same(r) == [ret |-> r, daily_spent |-> d, monthly_spent |-> m, tx_count |-> tx]
    IN  IF CurrencyCheck(cur)
        THEN same(BuildDenied("CURRENCY_MISMATCH", None, None, d, m))
        ELSE IF VendorCheck(vendor)
        THEN same(BuildDenied("VENDOR_NOT_ALLOWED", None, None, d, m))
        ELSE IF PerTxCheck(amount)
        THEN same(BuildDenied("PER_TRANSACTION_LIMIT_EXCEEDED",
                              Some([hint |-> "reduce", cents |-> Get(per_tx_max)]),
                              Some([amount_cents |-> Get(per_tx_max)]), d, m))
        ELSE IF DailyCheck(amount, d)
        THEN same(BuildDenied("DAILY_LIMIT_EXCEEDED",
                              Some([hint |-> "reduce_or_wait_daily", cents |-> daily_remaining]),
                              IF daily_remaining > 0
                              THEN Some([amount_cents |-> daily_remaining]) ELSE None,
                              d, m))
        ELSE IF MonthlyCheck(amount, m)
        THEN same(BuildDenied("MONTHLY_LIMIT_EXCEEDED",
                              Some([hint |-> "reduce_or_wait_monthly", cents |-> monthly_remaining]),
                              IF monthly_remaining > 0
                              THEN Some([amount_cents |-> monthly_remaining]) ELSE None,
                              d, m))
        ELSE LET c == Commit(amount, d, m, tx)
             IN  [ret |-> BuildApproved(amount, cur, vendor, c.daily_spent, c.monthly_spent),
                  daily_spent |-> c.daily_spent,
                  monthly_spent |-> c.monthly_spent,
                  tx_count |-> c.tx_count]

\* what a returned record adds to the total of the approved amounts
Approved(r, amount) == IF r.kind = "record" /\ r.decision = "APPROVED" THEN amount ELSE 0

\* SandboxEngine.spend(vendor, amount_cents, currency)
Spend(vendor, amount_cents, cur) ==
    \E w \in {WarnOnce(warned)},
       r \in {AutoResetIfNewDay(daily_spent, monthly_spent, start_date, today)},
       err \in {Validate(vendor, amount_cents, cur)} :
        /\ warned' = w.warned
        /\ stderr' = stderr + w.printed
        /\ start_date' = r.start_date
        /\ call' = [op |-> "spend", vendor |-> vendor, amount_cents |-> amount_cents,
                    currency |-> cur]
        /\ IF err # "ok"
           THEN /\ ret' = [kind |-> "raise", exc |-> "ValueError", message |-> err]
                /\ daily_spent' = r.daily_spent
                /\ monthly_spent' = r.monthly_spent
                /\ tx_count' = tx_count
                /\ approved_today' = approved_today
           ELSE \E e \in {Evaluate(NormVendor(vendor), amount_cents.n, NormCurrency(cur),
                                    r.daily_spent, r.monthly_spent, tx_count)} :
                /\ ret' = e.ret
                /\ daily_spent' = e.daily_spent
                /\ monthly_spent' = e.monthly_spent
                /\ tx_count' = e.tx_count
                /\ approved_today' = approved_today + Approved(e.ret, amount_cents.n)
        /\ UNCHANGED <<kora, config, today, thr>>

\* SandboxEngine.get_budget()
GetBudget ==
    \E w \in {WarnOnce(warned)},
       r \in {AutoResetIfNewDay(daily_spent, monthly_spent, start_date, today)} :
        /\ warned' = w.warned
        /\ stderr' = stderr + w.printed
        /\ start_date' = r.start_date
        /\ daily_spent' = r.daily_spent
        /\ monthly_spent' = r.monthly_spent
        /\ call' = [NoCall EXCEPT !.op = "get_budget"]
        /\ ret' = [kind |-> "budget",
                   currency |-> currency,
                   status |-> "active",
                   spend_allowed |-> TRUE,
                   enforcement_mode |-> "enforce",
                   daily |-> [limit_cents |-> daily_limit,
                              spent_cents |-> r.daily_spent,
                              remaining_cents |-> daily_limit - r.daily_spent,
                              resets_at |-> today + 1],
                   monthly |-> [limit_cents |-> monthly_limit,
                                spent_cents |-> r.monthly_spent,
                                remaining_cents |-> monthly_limit - r.monthly_spent,
                                resets_at |-> (MonthOf(today) + 1) * DaysInMonth],
                   per_transaction_max_cents |-> per_tx_max,
                   allowed_vendors |-> allowed_vendors]
        /\ UNCHANGED <<kora, retries, config, tx_count, today, approved_today, thr>>

\* mutation: reset keeps the monthly counter
Reset_keeps_monthly ==
    /\ daily_spent' = 0
    /\ monthly_spent' = monthly_spent
    /\ tx_count' = 0
    /\ start_date' = today
    /\ call' = [NoCall EXCEPT !.op = "reset"]
    /\ ret' = [kind |-> "reset"]
    /\ approved_today' = 0
    /\ UNCHANGED <<kora, retries, config, warned, stderr, today, thr>>

\* SandboxEngine.reset()
Reset ==
    /\ daily_spent' = 0
    /\ monthly_spent' = 0
    /\ tx_count' = 0
    /\ start_date' = today
    /\ call' = [NoCall EXCEPT !.op = "reset"]
    /\ ret' = [kind |-> "reset"]
    /\ approved_today' = 0
    /\ UNCHANGED <<kora, retries, config, warned, stderr, today, thr>>

\* the UTC date moves to the next day between two calls
Tick ==
    /\ today < MaxDay
    /\ today' = today + 1
    /\ approved_today' = 0
    /\ UNCHANGED <<kora, retries, config, daily_spent, monthly_spent, tx_count, warned, start_date,
                   stderr, call, ret, thr>>

SpendCall ==
    /\ \E q \in Requests : Spend(q.vendor, q.amount_cents, q.currency)
    /\ UNCHANGED retries

Next == SpendCall \/ GetBudget \/ Reset \/ Tick

Spec == Init /\ [][Next]_vars


\* ------------------------------------------- spend called by two threads
\* One call of spend per thread, cut where the interpreter can switch
\* threads: between the reads and the writes of the engine's attributes.
Goto(t, l) == pc' = [pc EXCEPT ![t] = l]
Return(t, r) == /\ result' = [result EXCEPT ![t] = r] /\ Goto(t, "done")
engine == <<daily_spent, monthly_spent, tx_count, warned, start_date, stderr>>

T_Call(t, q) ==
    /\ pc[t] = "idle"
    /\ req' = [req EXCEPT ![t] = q]
    /\ Goto(t, "warn_once")
    /\ UNCHANGED <<kora, retries, config, engine, today, call, ret, approved_today, loc, result>>

\* _warn_once: `if not self._warned`
T_WarnTest(t) ==
    /\ pc[t] = "warn_once"
    /\ Goto(t, IF ~warned THEN "warn_print" ELSE "auto_reset")
    /\ UNCHANGED <<kora, retries, config, engine, today, call, ret, approved_today, req, loc, result>>

\* _warn_once: print(...); self._warned = True
T_WarnPrint(t) ==
    /\ pc[t] = "warn_print"
    /\ stderr' = stderr + 1
    /\ warned' = TRUE
    /\ Goto(t, "auto_reset")
    /\ UNCHANGED <<kora, retries, config, daily_spent, monthly_spent, tx_count, start_date,
                   today, call, ret, approved_today, req, loc, result>>

\* _auto_reset_if_new_day: today = ...; `if today != self._start_date`
T_AutoResetTest(t) ==
    /\ pc[t] = "auto_reset"
    /\ loc' = [loc EXCEPT ![t].today = today]
    /\ Goto(t, IF today # start_date THEN "reset_daily" ELSE "validate")
    /\ UNCHANGED <<kora, retries, config, engine, today, call, ret, approved_today, req, result>>

\* self.daily_spent = 0
T_ResetDaily(t) ==
    /\ pc[t] = "reset_daily"
    /\ daily_spent' = 0
    /\ Goto(t, "set_day")
    /\ UNCHANGED <<kora, retries, config, monthly_spent, tx_count, warned, start_date, stderr,
                   today, call, ret, approved_today, req, loc, result>>

\* self._start_date = today; `if today.day == 1`
T_SetDay(t) ==
    /\ pc[t] = "set_day"
    /\ start_date' = loc[t].today
    /\ Goto(t, IF DayOfMonth(loc[t].today) = 1 THEN "reset_monthly" ELSE "validate")
    /\ UNCHANGED <<kora, retries, config, daily_spent, monthly_spent, tx_count, warned, stderr,
                   today, call, ret, approved_today, req, loc, result>>

\* self.monthly_spent = 0
T_ResetMonthly(t) ==
    /\ pc[t] = "reset_monthly"
    /\ monthly_spent' = 0
    /\ Goto(t, "validate")
    /\ UNCHANGED <<kora, retries, config, daily_spent, tx_count, warned, start_date, stderr,
                   today, call, ret, approved_today, req, loc, result>>

\* the input validation, the normalization and the three checks that read
\* the arguments and the mandate only
T_Validate(t) ==
    /\ pc[t] = "validate"
    /\ LET q == req[t]
           err == Validate(q.vendor, q.amount_cents, q.currency)
           denied(code, s, r) == Return(t, BuildDenied(code, s, r, daily_spent, monthly_spent))
       IN  IF err # "ok"
           THEN /\ Return(t, [kind |-> "raise", exc |-> "ValueError", message |-> err])
           ELSE IF CurrencyCheck(NormCurrency(q.currency))
           THEN denied("CURRENCY_MISMATCH", None, None)
           ELSE IF VendorCheck(NormVendor(q.vendor))
           THEN denied("VENDOR_NOT_ALLOWED", None, None)
           ELSE IF PerTxCheck(q.amount_cents.n)
           THEN denied("PER_TRANSACTION_LIMIT_EXCEEDED",
                       Some([hint |-> "reduce", cents |-> Get(per_tx_max)]),
                       Some([amount_cents |-> Get(per_tx_max)]))
           ELSE Goto(t, "daily") /\ UNCHANGED result
    /\ UNCHANGED <<kora, retries, config, engine, today, call, ret, approved_today, req, loc>>

\* daily_remaining = self.daily_limit - self.daily_spent; the daily check
T_Daily(t) ==
    /\ pc[t] = "daily"
    /\ LET daily_remaining == daily_limit - daily_spent
       IN  /\ loc' = [loc EXCEPT ![t].daily_remaining = daily_remaining]
           /\ IF DailyCheck(req[t].amount_cents.n, daily_spent)
              THEN Return(t, BuildDenied("DAILY_LIMIT_EXCEEDED",
                       Some([hint |-> "reduce_or_wait_daily", cents |-> daily_remaining]),
                       IF daily_remaining > 0
                       THEN Some([amount_cents |-> daily_remaining]) ELSE None,
                       daily_spent, monthly_spent))
              ELSE Goto(t, "monthly") /\ UNCHANGED result
    /\ UNCHANGED <<kora, retries, config, engine, today, call, ret, approved_today, req>>

\* monthly_remaining = self.monthly_limit - self.monthly_spent; the check
T_Monthly(t) ==
    /\ pc[t] = "monthly"
    /\ LET monthly_remaining == monthly_limit - monthly_spent
       IN  /\ loc' = [loc EXCEPT ![t].monthly_remaining = monthly_remaining]
           /\ IF MonthlyCheck(req[t].amount_cents.n, monthly_spent)
              THEN Return(t, BuildDenied("MONTHLY_LIMIT_EXCEEDED",
                       Some([hint |-> "reduce_or_wait_monthly", cents |-> monthly_remaining]),
                       IF monthly_remaining > 0
                       THEN Some([amount_cents |-> monthly_remaining]) ELSE None,
                       daily_spent, monthly_spent))
              ELSE Goto(t, "load_daily") /\ UNCHANGED result
    /\ UNCHANGED <<kora, retries, config, engine, today, call, ret, approved_today, req>>

\* self.daily_spent += amount_cents: the read, then the write
T_LoadDaily(t) ==
    /\ pc[t] = "load_daily"
    /\ loc' = [loc EXCEPT ![t].tmp = daily_spent]
    /\ Goto(t, "store_daily")
    /\ UNCHANGED <<kora, retries, config, engine, today, call, ret, approved_today, req, result>>

T_StoreDaily(t) ==
    /\ pc[t] = "store_daily"
    /\ daily_spent' = loc[t].tmp + req[t].amount_cents.n
    /\ Goto(t, "load_monthly")
    /\ UNCHANGED <<kora, retries, config, monthly_spent, tx_count, warned, start_date, stderr,
                   today, call, ret, approved_today, req, loc, result>>

\* self.monthly_spent += amount_cents
T_LoadMonthly(t) ==
    /\ pc[t] = "load_monthly"
    /\ loc' = [loc EXCEPT ![t].tmp = monthly_spent]
    /\ Goto(t, "store_monthly")
    /\ UNCHANGED <<kora, retries, config, engine, today, call, ret, approved_today, req, result>>

T_StoreMonthly(t) ==
    /\ pc[t] = "store_monthly"
    /\ monthly_spent' = loc[t].tmp + req[t].amount_cents.n
    /\ Goto(t, "load_tx")
    /\ UNCHANGED <<kora, retries, config, daily_spent, tx_count, warned, start_date, stderr,
                   today, call, ret, approved_today, req, loc, result>>

\* self.tx_count += 1
T_LoadTx(t) ==
    /\ pc[t] = "load_tx"
    /\ loc' = [loc EXCEPT ![t].tmp = tx_count]
    /\ Goto(t, "store_tx")
    /\ UNCHANGED <<kora, retries, config, engine, today, call, ret, approved_today, req, result>>

T_StoreTx(t) ==
    /\ pc[t] = "store_tx"
    /\ tx_count' = loc[t].tmp + 1
    /\ Goto(t, "approved")
    /\ UNCHANGED <<kora, retries, config, daily_spent, monthly_spent, warned, start_date, stderr,
                   today, call, ret, approved_today, req, loc, result>>

\* the APPROVED record is built and returned
T_Approved(t) ==
    /\ pc[t] = "approved"
    /\ Return(t, BuildApproved(req[t].amount_cents.n, NormCurrency(req[t].currency),
                               NormVendor(req[t].vendor), daily_spent, monthly_spent))
    /\ UNCHANGED <<kora, retries, config, engine, today, call, ret, approved_today, req, loc>>

ThreadStep(t) ==
    \/ \E q \in RaceRequests : T_Call(t, q)
    \/ T_WarnTest(t) \/ T_WarnPrint(t)
    \/ T_AutoResetTest(t) \/ T_ResetDaily(t) \/ T_SetDay(t) \/ T_ResetMonthly(t)
    \/ T_Validate(t) \/ T_Daily(t) \/ T_Monthly(t)
    \/ T_LoadDaily(t) \/ T_StoreDaily(t)
    \/ T_LoadMonthly(t) \/ T_StoreMonthly(t)
    \/ T_LoadTx(t) \/ T_StoreTx(t)
    \/ T_Approved(t)

NextConc == (\E t \in Threads : ThreadStep(t)) \/ Tick

\* an engine with the default sandbox_config entries for the cap and the
\* allow-list (None), and limits chosen by the caller
InitConc ==
    /\ Init
    /\ per_tx_max = None
    /\ allowed_vendors = None

SpecConc == InitConc /\ [][NextConc]_vars

\* --------------------------------------------------- text and bytes
\* a local binding: the value of the one element of S, computed once
Only(S) == CHOOSE x \in S : TRUE

\* the ASCII characters chr(32) .. chr(126), in order (the grave accent is
\* written "chr(96)")
Printable ==
    <<" ", "!", "\"", "#", "$", "%", "&", "'", "(", ")", "*", "+",
      ",", "-", ".", "/", "0", "1", "2", "3", "4", "5", "6", "7",
      "8", "9", ":", ";", "<", "=", ">", "?", "@", "A", "B", "C",
      "D", "E", "F", "G", "H", "I", "J", "K", "L", "M", "N", "O",
      "P", "Q", "R", "S", "T", "U", "V", "W", "X", "Y", "Z", "[",
      "\\", "]", "^", "_", "chr(96)", "a", "b", "c", "d", "e", "f", "g",
      "h", "i", "j", "k", "l", "m", "n", "o", "p", "q", "r", "s",
      "t", "u", "v", "w", "x", "y", "z", "{", "|", "}", "~">>

Chr(n) == Printable[n - 31]

\* ord(c) of an ASCII character
Ord == [c \in {Printable[i] : i \in 1..Len(Printable)} |->
            31 + CHOOSE i \in 1..Len(Printable) : Printable[i] = c]

\* text.encode("utf-8") of a text of ASCII characters: one byte each
EncodeUtf8(text) == [i \in 1..Len(text) |-> Ord[text[i]]]

\* data.decode("utf-8") where every byte is an ASCII character, None where
\* the bytes are no text of the model
DecodeUtf8(data) ==
    IF \A i \in 1..Len(data) : data[i] \in 32..126
    THEN Some([i \in 1..Len(data) |-> Chr(data[i])])
    ELSE None

\* the base64 alphabet: the character of each 6-bit value
B64Alphabet ==
    <<"A", "B", "C", "D", "E", "F", "G", "H", "I", "J", "K", "L", "M",
      "N", "O", "P", "Q", "R", "S", "T", "U", "V", "W", "X", "Y", "Z",
      "a", "b", "c", "d", "e", "f", "g", "h", "i", "j", "k", "l", "m",
      "n", "o", "p", "q", "r", "s", "t", "u", "v", "w", "x", "y", "z",
      "0", "1", "2", "3", "4", "5", "6", "7", "8", "9", "+", "/">>

B64Char(n) == B64Alphabet[n + 1]

B64Index == [c \in {B64Alphabet[i] : i \in 1..64} |->
                (CHOOSE i \in 1..64 : B64Alphabet[i] = c) - 1]

\* byte k of data, 0 past its end
ByteAt(data, k) == IF k <= Len(data) THEN data[k] ELSE 0

\* base64.b64encode(data).decode("ascii"): every three bytes give four
\* characters, one or two bytes at the end give two or three and "="
B64Encode(data) ==
    [c \in 1..(4 * ((Len(data) + 2) \div 3)) |->
        LET at == 3 * ((c - 1) \div 4) + 1
        IN  CASE (c - 1) % 4 = 0 -> B64Char(data[at] \div 4)
              [] (c - 1) % 4 = 1 ->
                    B64Char((data[at] % 4) * 16 + ByteAt(data, at + 1) \div 16)
              [] (c - 1) % 4 = 2 ->
                    IF at + 1 > Len(data) THEN "="
                    ELSE B64Char((data[at + 1] % 16) * 4 + ByteAt(data, at + 2) \div 64)
              [] (c - 1) % 4 = 3 ->
                    IF at + 2 > Len(data) THEN "=" ELSE B64Char(data[at + 2] % 64)]

\* the bytes of a sequence of 6-bit values: every four of them give three
\* bytes, two or three at the end give one or two
SextetsToBytes(x) ==
    [k \in 1..((Len(x) * 3) \div 4) |->
        LET at == 4 * ((k - 1) \div 3) + 1
        IN  CASE (k - 1) % 3 = 0 -> x[at] * 4 + x[at + 1] \div 16
              [] (k - 1) % 3 = 1 -> (x[at + 1] % 16) * 16 + x[at + 2] \div 4
              [] (k - 1) % 3 = 2 -> (x[at + 2] % 4) * 64 + x[at + 3]]

IsB64Char(c) == c \in DOMAIN B64Index

\* binascii.a2b_base64 reads s character by character: characters outside
\* the alphabet are skipped, and a "=" ends the data where it completes a
\* group of four that holds at least two characters of the alphabet.
\* the characters of the alphabet before position i
AlphaBefore(s, i) == Cardinality({j \in 1..(i - 1) : IsB64Char(s[j])})

\* the "=" read before position i since the last character of the alphabet
PadsBefore(s, i) ==
    Cardinality({j \in 1..(i - 1) :
                    s[j] = "=" /\ \A k \in j..(i - 1) : ~IsB64Char(s[k])})

\* the positions of a "=" that completes its group
PadEnds(s) ==
    {i \in 1..Len(s) :
        /\ s[i] = "="
        /\ AlphaBefore(s, i) % 4 >= 2
        /\ (AlphaBefore(s, i) % 4) + PadsBefore(s, i) + 1 >= 4}

\* base64.b64decode(s); None where binascii.Error is raised: the data ends
\* inside a group
B64Decode(s) ==
    LET stop == IF PadEnds(s) = {} THEN Len(s) + 1
                ELSE CHOOSE i \in PadEnds(s) : \A j \in PadEnds(s) : i <= j
        data == SelectSeq(SubSeq(s, 1, stop - 1), IsB64Char)
    IN  IF PadEnds(s) = {} /\ Len(data) % 4 # 0 THEN None
        ELSE Some(SextetsToBytes([i \in 1..Len(data) |-> B64Index[data[i]]]))

HexDigits == <<"0", "1", "2", "3", "4", "5", "6", "7", "8", "9",
               "a", "b", "c", "d", "e", "f">>

\* data.hex()
Hex(data) ==
    [i \in 1..(2 * Len(data)) |->
        IF i % 2 = 1 THEN HexDigits[data[(i + 1) \div 2] \div 16 + 1]
        ELSE HexDigits[(data[i \div 2] % 16) + 1]]

IsHexDigit(c) == \E i \in 1..16 : HexDigits[i] = LowerChar(c)
HexValue(c) == (CHOOSE i \in 1..16 : HexDigits[i] = LowerChar(c)) - 1

NotBlank(c) == c \notin Whitespace

\* bytes.fromhex(text): two digits a byte, blanks between the bytes skipped;
\* None where ValueError is raised: a character that is no digit, a digit
\* without its second, a blank between the two digits of a byte
FromHex(text) ==
    IF \/ \E i \in 1..Len(text) : NotBlank(text[i]) /\ ~IsHexDigit(text[i])
       \/ Cardinality({i \in 1..Len(text) : NotBlank(text[i])}) % 2 # 0
       \/ \E i \in 1..Len(text) :
             /\ ~NotBlank(text[i])
             /\ Cardinality({j \in 1..i : NotBlank(text[j])}) % 2 # 0
    THEN None
    ELSE Some(Only({[k \in 1..(Len(digits) \div 2) |->
                        HexValue(digits[2 * k - 1]) * 16 + HexValue(digits[2 * k])]
                    : digits \in {SelectSeq(text, NotBlank)}}))

\* ------------------------------------------------- canonical JSON (crypto)
\* A JSON value: an int, a str, a list of values, or a dict, which is the
\* sequence of its <<key, value>> items in insertion order, the keys being
\* distinct strs.
JInt(n) == [t |-> "int", n |-> n]
JStr(s) == [t |-> "str", s |-> s]
JList(items) == [t |-> "list", items |-> items]
JDict(items) == [t |-> "dict", items |-> items]
JNull == [t |-> "null"]
JBool(b) == [t |-> "bool", b |-> b]

\* a value json.dumps has no form for: an object()
JObject == [t |-> "object"]

\* json.dumps(obj) does not raise TypeError
RECURSIVE Serializable(_)
Serializable(obj) ==
    CASE obj.t = "object" -> FALSE
      [] obj.t = "list" -> \A i \in 1..Len(obj.items) : Serializable(obj.items[i])
      [] obj.t = "dict" -> \A i \in 1..Len(obj.items) : Serializable(obj.items[i][2])
      [] OTHER -> TRUE

\* s < t for two strs: Python compares them code point by code point, a
\* proper prefix being the smaller
RECURSIVE StrLess(_, _)
StrLess(s, t) ==
    IF Len(t) = 0 THEN FALSE
    ELSE IF Len(s) = 0 THEN TRUE
    ELSE IF Ord[s[1]] # Ord[t[1]] THEN Ord[s[1]] < Ord[t[1]]
    ELSE StrLess(Tail(s), Tail(t))

\* sorted(obj.items()): the items in ascending order of their keys
RECURSIVE InsertItem(_, _)
InsertItem(item, sorted) ==
    IF Len(sorted) = 0 THEN <<item>>
    ELSE IF StrLess(item[1], sorted[1][1]) THEN <<item>> \o sorted
    ELSE <<sorted[1]>> \o InsertItem(item, Tail(sorted))

RECURSIVE SortedItems(_)
SortedItems(items) ==
    IF Len(items) = 0 THEN <<>>
    ELSE InsertItem(items[1], SortedItems(Tail(items)))

\* mutation: the keys of a dict inside a list are left in insertion order
RECURSIVE SortKeysDeep_skips_lists(_)
SortKeysDeep_skips_lists(obj) ==
    IF obj.t = "dict"
    THEN JDict([i \in 1..Len(obj.items) |->
                  <<SortedItems(obj.items)[i][1],
                    SortKeysDeep_skips_lists(SortedItems(obj.items)[i][2])>>])
    ELSE obj

\* sort_keys_deep(obj)
RECURSIVE SortKeysDeep(_)
SortKeysDeep(obj) ==
    IF obj.t = "dict"
    THEN JDict([i \in 1..Len(obj.items) |->
                  <<SortedItems(obj.items)[i][1],
                    SortKeysDeep(SortedItems(obj.items)[i][2])>>])
    ELSE IF obj.t = "list"
    THEN JList([i \in 1..Len(obj.items) |-> SortKeysDeep(obj.items[i])])
    ELSE obj

\* str(n) of an int n >= 0
RECURSIVE Digits(_)
Digits(n) ==
    LET d == <<"0", "1", "2", "3", "4", "5", "6", "7", "8", "9">>[(n % 10) + 1]
    IN  IF n < 10 THEN <<d>> ELSE Digits(n \div 10) \o <<d>>

\* sep.join(parts)
RECURSIVE Join(_, _)
Join(sep, parts) ==
    IF Len(parts) = 0 THEN <<>>
    ELSE IF Len(parts) = 1 THEN parts[1]
    ELSE parts[1] \o sep \o Join(sep, Tail(parts))

\* the text of a str between its quotes: a quote and a backslash are
\* written behind a backslash
RECURSIVE Escaped(_)
Escaped(s) ==
    IF Len(s) = 0 THEN <<>>
    ELSE (IF s[1] \in {"\"", "\\"} THEN <<"\\", s[1]>> ELSE <<s[1]>>) \o Escaped(Tail(s))

Quoted(s) == <<"\"">> \o Escaped(s) \o <<"\"">>

\* json.dumps(obj, separators=(",", ":"), ensure_ascii=False): the text,
\* a dict being written in the order of its items
RECURSIVE Dumps(_)
Dumps(obj) ==
    CASE obj.t = "int" -> Digits(obj.n)
      [] obj.t = "str" -> Quoted(obj.s)
      [] obj.t = "null" -> <<"n", "u", "l", "l">>
      [] obj.t = "bool" -> IF obj.b THEN <<"t", "r", "u", "e">>
                           ELSE <<"f", "a", "l", "s", "e">>
      [] obj.t = "list" ->
            <<"[">> \o Join(<<",">>, [i \in 1..Len(obj.items) |-> Dumps(obj.items[i])])
            \o <<"]">>
      [] obj.t = "dict" ->
            <<"{">>
            \o Join(<<",">>, [i \in 1..Len(obj.items) |->
                                Quoted(obj.items[i][1]) \o <<":">>
                                \o Dumps(obj.items[i][2])])
            \o <<"}">>

\* canonicalize(obj)
Canonicalize(obj) == EncodeUtf8(Dumps(SortKeysDeep(obj)))

\* the JSON values handed to canonicalize
JsonKeys == {<<"b">>, <<"a">>, <<"B">>}
Atoms == {JInt(n) : n \in 1..MaxJsonInt} \cup {JStr(<<"a">>)}

\* the orders in which n items can be inserted
Orders(n) == {p \in [1..n -> 1..n] : \A i, j \in 1..n : p[i] = p[j] => i = j}

\* the sequences of distinct keys
KeyOrders ==
    {ks \in UNION {[1..n -> JsonKeys] : n \in 0..Cardinality(JsonKeys)} :
        \A i, j \in 1..Len(ks) : ks[i] = ks[j] => i = j}

\* the dicts with these keys and values among V, in every insertion order
DictsOver(V) ==
    UNION {{JDict([i \in 1..Len(ks) |-> <<ks[i], vs[i]>>]) : vs \in [1..Len(ks) -> V]} :
           ks \in KeyOrders}

FlatDicts == DictsOver(Atoms)
FlatLists == UNION {{JList(l) : l \in [1..n -> Atoms]} : n \in 0..MaxListLen}

\* dicts inside lists, dicts inside dicts, a dict inside a list inside a
\* dict, and keys of which one is a prefix of the other
NestedValues ==
    {JList(<<d, a>>) : d \in FlatDicts, a \in Atoms}
    \cup {JList(<<a, d>>) : d \in FlatDicts, a \in Atoms}
    \cup {JDict(<<<<ks[1], d>>, <<ks[2], a>>>>) :
              ks \in {k \in KeyOrders : Len(k) = 2}, d \in FlatDicts, a \in Atoms}
    \cup {JDict(<<<<k, JList(<<d>>)>>>>) : k \in JsonKeys, d \in FlatDicts}
    \cup {JDict(<<<<ks[1], a>>, <<ks[2], b>>>>) :
              ks \in {<<<<"a", "b">>, <<"a">>>>, <<<<"a">>, <<"a", "b">>>>},
              a \in Atoms, b \in Atoms}

JsonInputs == Atoms \cup FlatDicts \cup FlatLists \cup NestedValues

\* the values that differ from v only in the insertion order of the keys of
\* its dicts, at any depth
RECURSIVE Reorderings(_)
Reorderings(v) ==
    IF v.t \in {"dict", "list"}
    THEN LET n == Len(v.items)
             child(i) == IF v.t = "dict" THEN v.items[i][2] ELSE v.items[i]
             choices == {c \in [1..n -> UNION {Reorderings(child(i)) : i \in 1..n}] :
                            \A i \in 1..n : c[i] \in Reorderings(child(i))}
         IN  IF v.t = "dict"
             THEN {JDict([i \in 1..n |-> <<v.items[p[i]][1], c[p[i]]>>]) :
                       p \in Orders(n), c \in choices}
             ELSE {JList(c) : c \in choices}
    ELSE {v}

\* x and y hold the same content: equal but for the order of dict items
RECURSIVE SameContent(_, _)
SameContent(x, y) ==
    /\ x.t = y.t
    /\ CASE x.t = "int" -> x.n = y.n
         [] x.t = "str" -> x.s = y.s
         [] x.t = "list" ->
               /\ Len(x.items) = Len(y.items)
               /\ \A i \in 1..Len(x.items) : SameContent(x.items[i], y.items[i])
         [] x.t = "dict" ->
               /\ Len(x.items) = Len(y.items)
               /\ \A i \in 1..Len(x.items) : \E j \in 1..Len(y.items) :
                     /\ x.items[i][1] = y.items[j][1]
                     /\ SameContent(x.items[i][2], y.items[j][2])

\* v with the elements of every list in reverse order
RECURSIVE ReverseLists(_)
ReverseLists(v) ==
    CASE v.t = "list" ->
            JList([i \in 1..Len(v.items) |->
                      ReverseLists(v.items[Len(v.items) + 1 - i])])
      [] v.t = "dict" ->
            JDict([i \in 1..Len(v.items) |->
                      <<v.items[i][1], ReverseLists(v.items[i][2])>>])
      [] OTHER -> v

\* no engine is involved in the functions of crypto.py
NoEngine ==
    /\ daily_limit = 0 /\ monthly_limit = 0 /\ currency = EUR
    /\ per_tx_max = None /\ allowed_vendors = None
    /\ daily_spent = 0 /\ monthly_spent = 0 /\ tx_count = 0
    /\ warned = FALSE /\ today = 0 /\ start_date = 0 /\ stderr = 0
    /\ approved_today = 0
    /\ pc = [t \in Threads |-> "idle"]
    /\ req = [t \in Threads |-> Request(PyNone, PyNone, PyNone)]
    /\ loc = [t \in Threads |-> NoLocals]
    /\ result = [t \in Threads |-> NoRet]

\* a call of canonicalize(obj) about to be made
InitCanonicalize ==
    /\ NoEngine /\ kora = NoKora /\ retries = 0
    /\ call \in {[op |-> "canonicalize", obj |-> x] : x \in JsonInputs}
    /\ ret = NoRet

\* canonicalize(obj) returns
CanonicalizeCall ==
    /\ call.op = "canonicalize" /\ ret = NoRet
    /\ ret' = [kind |-> "bytes", value |-> Canonicalize(call.obj)]
    /\ UNCHANGED <<kora, retries, config, engine, today, call, approved_today, thr>>

SpecCanonicalize == InitCanonicalize /\ [][CanonicalizeCall]_vars

\* ------------------------------------------------- Ed25519 keys (crypto)
\* PyNaCl is modelled by its contract: a signing key is its 32-byte seed,
\* which determines the public key; sign is deterministic and gives 64
\* bytes; verify accepts the signature that sign gives for that message
\* under the seed of that public key, and nothing else.
SeedBytes == 32

Seeds ==
    {[i \in 1..SeedBytes |-> i], [i \in 1..SeedBytes |-> 171],
     [i \in 1..SeedBytes |-> 0]}

\* SigningKey(seed)
SigningKey(seed) == [seed |-> seed]

\* bytes(signing_key.verify_key)
PublicKeyOf(seed) == [i \in 1..SeedBytes |-> (seed[i] * 3 + i) % 256]

\* the share of the bytes lo..hi of m in word w of a digest of m
RECURSIVE MixRange(_, _, _, _)
MixRange(m, w, lo, hi) ==
    IF lo > hi THEN 0
    ELSE IF lo = hi THEN (m[lo] * (w * lo * lo + 7 * lo + w)) % 65521
    ELSE (MixRange(m, w, lo, (lo + hi) \div 2)
          + MixRange(m, w, ((lo + hi) \div 2) + 1, hi)) % 65521

\* word w of a digest of m: the share of its bytes and of its length
Mix(m, w) == (Len(m) * (2 * w + 1) * 251 + MixRange(m, w, 1, Len(m))) % 65521

\* a digest of m: four words below 65521
Words(m) == Only({[w \in 1..4 |-> Mix(mm, w)] : mm \in {m}})

\* n bytes that the four words determine: their low and their high bytes
\* in turn
Spread(words, n, salt) ==
    [i \in 1..n |->
        ((IF ((i - 1) \div 4) % 2 = 0 THEN words[((i - 1) % 4) + 1] % 256
          ELSE words[((i - 1) % 4) + 1] \div 256) + salt * i) % 256]

\* hashlib.sha256(data).digest(), modelled by its contract: 32 bytes that
\* the data determine
Sha256(data) == Only({Spread(w, 32, 3) : w \in {Words(data)}})

\* the bytes of a signature under a seed from the bytes of a digest
Keyed(seed, bytes) ==
    [i \in 1..Len(bytes) |-> (seed[((i - 1) % SeedBytes) + 1] * 7 + bytes[i]) % 256]

\* signing_key.sign(message).signature
NaclSign(seed, m) == Only({Keyed(seed, b) : b \in {Only({Spread(w, 2 * SeedBytes, 1) : w \in {Words(m)}})}})

\* VerifyKey(public_key_bytes).verify(message, signature): "ok", or the
\* name of the exception raised
NaclVerify(public_key_bytes, m, signature) ==
    IF Len(public_key_bytes) # SeedBytes \/ Len(signature) # 2 * SeedBytes
    THEN "ValueError"
    ELSE IF \E seed \in Seeds : /\ public_key_bytes = PublicKeyOf(seed)
                                /\ signature = NaclSign(seed, m)
    THEN "ok"
    ELSE "BadSignatureError"

AGENT_SK_PREFIX ==
    <<"k", "o", "r", "a", "_", "a", "g", "e", "n", "t", "_", "s", "k", "_">>

ValueError(message) == [kind |-> "raise", exc |-> "ValueError", message |-> message]

\* the index of the first c in text, 0 where there is none
IndexOf(text, c) ==
    IF \E i \in 1..Len(text) : text[i] = c
    THEN CHOOSE i \in 1..Len(text) : text[i] = c /\ \A j \in 1..(i - 1) : text[j] # c
    ELSE 0

\* parse_agent_key(key_string)
ParseAgentKey(key_string) ==
    IF \/ Len(key_string) < Len(AGENT_SK_PREFIX)
       \/ SubSeq(key_string, 1, Len(AGENT_SK_PREFIX)) # AGENT_SK_PREFIX
    THEN ValueError("Agent key must start with 'kora_agent_sk_'")
    ELSE LET encoded == SubSeq(key_string, Len(AGENT_SK_PREFIX) + 1, Len(key_string))
             data == B64Decode(encoded)
             decoded == IF IsNone(data) THEN None ELSE DecodeUtf8(Get(data))
         IN  IF IsNone(decoded)
             THEN ValueError("Invalid base64 in agent key")
             ELSE LET at == IndexOf(Get(decoded), ":")
                      agent_id == SubSeq(Get(decoded), 1, at - 1)
                      private_hex == SubSeq(Get(decoded), at + 1, Len(Get(decoded)))
                      seed == FromHex(private_hex)
                  IN  IF at = 0
                      THEN ValueError("Agent key payload missing ':' separator")
                      ELSE IF Len(agent_id) = 0
                      THEN ValueError("Agent key has empty agent_id")
                      ELSE IF IsNone(seed)
                      THEN ValueError("Invalid hex in private key")
                      ELSE IF Len(Get(seed)) # SeedBytes
                      THEN ValueError("Private key must be 32 bytes")
                      ELSE [kind |-> "identity", agent_id |-> agent_id,
                            signing_key |-> SigningKey(Get(seed))]

SignMessage_whole_signed(message, signing_key) ==
    B64Encode(NaclSign(signing_key.seed, message) \o message)

\* sign_message(message, signing_key)
SignMessage(message, signing_key) ==
    B64Encode(NaclSign(signing_key.seed, message))

\* the try block of verify_signature: "ok" where it reaches return True, or
\* the name of the exception raised on the way. A signature_b64 or
\* public_key_b64 that is None makes b64decode raise TypeError.
VerifyBody(message, signature_b64, public_key_b64) ==
    IF public_key_b64 = PyNone THEN "TypeError"
    ELSE LET public_key_bytes == B64Decode(public_key_b64.s)
         IN  IF IsNone(public_key_bytes) THEN "binascii.Error"
             ELSE IF Len(Get(public_key_bytes)) # SeedBytes THEN "ValueError"
             ELSE IF signature_b64 = PyNone THEN "TypeError"
             ELSE LET signature == B64Decode(signature_b64.s)
                  IN  IF IsNone(signature) THEN "binascii.Error"
                      ELSE NaclVerify(Get(public_key_bytes), message, Get(signature))

ExceptClause_bad_signature_only(exc) == exc = "BadSignatureError"

\* except (BadSignatureError, Exception): the clause catches every exception
\* but those that are no Exception
ExceptClause(exc) == exc \notin {"KeyboardInterrupt", "SystemExit", "GeneratorExit"}

Bool(b) == [kind |-> "bool", value |-> b]
Raise(exc) == [kind |-> "raise", exc |-> exc]

\* the outcome of a try block under the except clause of verify_signature
FailClosed(outcome) ==
    IF outcome = "ok" THEN Bool(TRUE)
    ELSE IF ExceptClause(outcome) THEN Bool(FALSE)
    ELSE Raise(outcome)

VerifySignature_drops_message(message, signature_b64, public_key_b64) ==
    FailClosed(VerifyBody(<<>>, signature_b64, public_key_b64))

\* verify_signature(message, signature_b64, public_key_b64): what it
\* returns, or the exception it lets through
VerifySignature(message, signature_b64, public_key_b64) ==
    FailClosed(VerifyBody(message, signature_b64, public_key_b64))

\* _build_test_agent_key: the key string of an agent_id and a seed
BuildAgentKey(agent_id, seed) ==
    AGENT_SK_PREFIX \o B64Encode(EncodeUtf8(agent_id \o <<":">> \o Hex(seed)))

AgentIds == {<<"a">>, <<"t", "_", "0", "1">>}
ByteSamples == {0, 58, 255}

\* the messages: short byte strings, and the canonical bytes of dicts
RawMessages == UNION {[1..n -> ByteSamples] : n \in 0..MaxMsgLen}
SignedValues == {v \in FlatDicts : Len(v.items) <= 2}
Messages == RawMessages \cup {Canonicalize(x) : x \in SignedValues}

\* a key pair made as _build_test_agent_key makes it, a message, and the
\* base64 of the public key; the signing key is handed over directly or as
\* the key string to parse
InitSignVerify ==
    /\ NoEngine /\ kora = NoKora /\ retries = 0
    /\ \E seed \in Seeds, m \in Messages :
          \E k \in {None} \cup {Some(BuildAgentKey(a, seed)) : a \in AgentIds} :
             call = [op |-> "sign_verify",
                     key_string |-> k,
                     signing_key |-> SigningKey(seed),
                     public_key_b64 |-> B64Encode(PublicKeyOf(seed)),
                     message |-> m]
    /\ ret = NoRet

\* parse_agent_key(key_string) returns or raises
ParseKeyCall ==
    /\ call.op = "sign_verify" /\ ret = NoRet /\ ~IsNone(call.key_string)
    /\ ret' = ParseAgentKey(Get(call.key_string))
    /\ UNCHANGED <<kora, retries, config, engine, today, call, approved_today, thr>>

\* sign_message(message, signing_key) with the parsed key or the given one
SignCall ==
    /\ call.op = "sign_verify"
    /\ \/ ret.kind = "identity"
       \/ ret = NoRet /\ IsNone(call.key_string)
    /\ \E signing_key \in {IF ret.kind = "identity" THEN ret.signing_key
                           ELSE call.signing_key} :
          ret' = [kind |-> "signature", value |-> SignMessage(call.message, signing_key)]
    /\ UNCHANGED <<kora, retries, config, engine, today, call, approved_today, thr>>

\* verify_signature(message, signature, public_key_b64) returns
VerifyCall ==
    /\ call.op = "sign_verify" /\ ret.kind = "signature"
    /\ ret' = VerifySignature(call.message, PyStr(ret.value), PyStr(call.public_key_b64))
    /\ UNCHANGED <<kora, retries, config, engine, today, call, approved_today, thr>>

NextSignVerify == ParseKeyCall \/ SignCall \/ VerifyCall

SpecSignVerify == InitSignVerify /\ [][NextSignVerify]_vars

\* ---------------------------------------------- verify_signature (crypto)
\* m with byte i replaced by b
WithByte(m, i, b) == [j \in 1..Len(m) |-> IF j = i THEN b ELSE m[j]]

\* the messages that differ from m: in one byte, by a byte more, by a byte
\* less
Tampered(m) ==
    {WithByte(m, i, (m[i] + 1) % 256) : i \in 1..Len(m)}
    \cup {WithByte(m, i, (m[i] + 128) % 256) : i \in 1..Len(m)}
    \cup {Append(m, b) : b \in ByteSamples}
    \cup {SubSeq(m, 1, Len(m) - 1) : i \in 1..Len(m)}

\* the public key of a key pair that signed nothing here
StrangerKey == [i \in 1..SeedBytes |-> 200]

\* a public_key_b64 and the seed whose public key it is, if any: the keys of
\* the seeds, a key of nobody, text that is no base64, base64 of too few
\* bytes or none, and None
PublicKeyInputs ==
    {[b64 |-> PyStr(B64Encode(PublicKeyOf(seed))), key_of |-> Some(seed)] : seed \in Seeds}
    \cup {[b64 |-> k, key_of |-> None] :
             k \in {PyStr(B64Encode(StrangerKey)), PyStr(<<"A">>),
                    PyStr(<<"A", "A", "A", "A">>), PyStr(<<>>), PyNone}}

\* a signature_b64 that no sign_message call gave: 64 bytes of nothing, text
\* that is no base64, base64 of too few bytes or none, and None
BadSignatures ==
    {PyStr(B64Encode([i \in 1..(2 * SeedBytes) |-> 7])), PyStr(<<"A">>),
     PyStr(<<"A", "A", "A">>), PyStr(<<"A", "A", "A", "A">>), PyStr(<<>>), PyNone}

\* the failures inside the library that the inputs do not explain
LibraryFailures == {"RuntimeError", "CryptoError"}

\* verify_signature is about to be called: with the signature of a message
\* under a seed, over that message with any of the public keys or over a
\* tampered one with the public key of the seed; or with a signature nobody
\* made; a few calls meet a failure inside the library
InitVerify ==
    /\ NoEngine /\ kora = NoKora /\ retries = 0
    /\ ret = NoRet
    /\ \/ \E seed \in Seeds, m \in Messages, k \in PublicKeyInputs :
             \E m2 \in IF k.key_of = Some(seed) THEN {m} \cup Tampered(m) ELSE {m} :
                call = [op |-> "verify_signature", message |-> m2,
                        signature_b64 |-> PyStr(SignMessage(m, SigningKey(seed))),
                        public_key_b64 |-> k.b64, key_of |-> k.key_of,
                        signed |-> Some([message |-> m, seed |-> seed]),
                        fault |-> None]
       \/ \E sig \in BadSignatures, m \in RawMessages, k \in PublicKeyInputs :
             call = [op |-> "verify_signature", message |-> m,
                     signature_b64 |-> sig,
                     public_key_b64 |-> k.b64, key_of |-> k.key_of,
                     signed |-> None, fault |-> None]
       \/ \E seed \in Seeds, f \in LibraryFailures :
             call = [op |-> "verify_signature", message |-> <<>>,
                     signature_b64 |-> PyStr(SignMessage(<<>>, SigningKey(seed))),
                     public_key_b64 |-> PyStr(B64Encode(PublicKeyOf(seed))),
                     key_of |-> Some(seed),
                     signed |-> Some([message |-> <<>>, seed |-> seed]),
                     fault |-> Some(f)]

\* verify_signature(message, signature_b64, public_key_b64) returns; a
\* failure inside the library is an exception raised in the try block
VerifySignatureCall ==
    /\ call.op = "verify_signature" /\ ret = NoRet
    /\ ret' = IF IsNone(call.fault)
              THEN VerifySignature(call.message, call.signature_b64, call.public_key_b64)
              ELSE FailClosed(Get(call.fault))
    /\ UNCHANGED <<kora, retries, config, engine, today, call, approved_today, thr>>

SpecVerify == InitVerify /\ [][VerifySignatureCall]_vars

\* ------------------------------------------------ Kora.verify_seal (client)
\* the text of the names a seal's signed_fields may hold
FieldNames ==
    [intent_id |-> <<"i", "n", "t", "e", "n", "t", "_", "i", "d">>,
     mandate_id |-> <<"m", "a", "n", "d", "a", "t", "e", "_", "i", "d">>,
     mandate_version |-> <<"m", "a", "n", "d", "a", "t", "e", "_", "v", "e", "r", "s", "i", "o", "n">>,
     status |-> <<"s", "t", "a", "t", "u", "s">>,
     reason_code |-> <<"r", "e", "a", "s", "o", "n", "_", "c", "o", "d", "e">>,
     amount_cents |-> <<"a", "m", "o", "u", "n", "t", "_", "c", "e", "n", "t", "s">>,
     currency |-> <<"c", "u", "r", "r", "e", "n", "c", "y">>,
     vendor_id |-> <<"v", "e", "n", "d", "o", "r", "_", "i", "d">>,
     evaluated_at |-> <<"e", "v", "a", "l", "u", "a", "t", "e", "d", "_", "a", "t">>,
     ttl_seconds |-> <<"t", "t", "l", "_", "s", "e", "c", "o", "n", "d", "s">>,
     enforcement_mode |-> <<"e", "n", "f", "o", "r", "c", "e", "m", "e", "n", "t", "_", "m", "o", "d", "e">>,
     executable |-> <<"e", "x", "e", "c", "u", "t", "a", "b", "l", "e">>,
     decision |-> <<"d", "e", "c", "i", "s", "i", "o", "n">>,
     nonce |-> <<"n", "o", "n", "c", "e">>]

\* the attributes of an AuthorizationResult that the model keeps, besides
\* notary_seal
ResultFields ==
    {"intent_id", "mandate_id", "mandate_version", "decision", "reason_code",
     "amount_cents", "currency", "vendor_id", "evaluated_at", "ttl_seconds",
     "enforcement_mode", "executable", "decision_id", "trace_url"}

\* field_map of Kora.verify_seal: the name and the attribute of each entry,
\* in the order written
FieldMapEntries ==
    << <<"intent_id", "intent_id">>, <<"mandate_id", "mandate_id">>,
       <<"mandate_version", "mandate_version">>, <<"status", "decision">>,
       <<"reason_code", "reason_code">>, <<"amount_cents", "amount_cents">>,
       <<"currency", "currency">>, <<"vendor_id", "vendor_id">>,
       <<"evaluated_at", "evaluated_at">>, <<"ttl_seconds", "ttl_seconds">>,
       <<"enforcement_mode", "enforcement_mode">>, <<"executable", "executable">> >>

FieldMap_status_approved(auth) ==
    [i \in 1..Len(FieldMapEntries) |->
        <<FieldNames[FieldMapEntries[i][1]],
          IF FieldMapEntries[i][1] = "status"
          THEN JStr(<<"A", "P", "P", "R", "O", "V", "E", "D">>)
          ELSE auth[FieldMapEntries[i][2]]>>]

\* field_map: the items of the dict
FieldMap(auth) ==
    [i \in 1..Len(FieldMapEntries) |->
        <<FieldNames[FieldMapEntries[i][1]], auth[FieldMapEntries[i][2]]>>]

\* k in d, d[k] for the items of a dict
HasKey(items, k) == \E i \in 1..Len(items) : items[i][1] = k
ItemOf(items, k) == items[CHOOSE i \in 1..Len(items) : items[i][1] = k][2]

DecisionPayload_all_fields(signed_fields, field_map) == field_map

RECURSIVE DecisionPayload_unknown_as_null(_, _)
DecisionPayload_unknown_as_null(signed_fields, field_map) ==
    IF Len(signed_fields) = 0 THEN <<>>
    ELSE LET before == DecisionPayload_unknown_as_null(
                           SubSeq(signed_fields, 1, Len(signed_fields) - 1), field_map)
             f == signed_fields[Len(signed_fields)]
         IN  IF f.t = "str" /\ ~HasKey(before, f.s)
             THEN Append(before, <<f.s, IF HasKey(field_map, f.s)
                                        THEN ItemOf(field_map, f.s) ELSE JNull>>)
             ELSE before

\* decision_payload after the loop over seal.signed_fields: the items of
\* the dict, a name met again keeping its place
RECURSIVE DecisionPayload(_, _)
DecisionPayload(signed_fields, field_map) ==
    IF Len(signed_fields) = 0 THEN <<>>
    ELSE LET before == DecisionPayload(
                           SubSeq(signed_fields, 1, Len(signed_fields) - 1), field_map)
             f == signed_fields[Len(signed_fields)]
         IN  IF f.t = "str" /\ HasKey(field_map, f.s) /\ ~HasKey(before, f.s)
             THEN Append(before, <<f.s, ItemOf(field_map, f.s)>>)
             ELSE before

\* crypto.verify_seal(decision_payload, signature_b64, public_key_b64):
\* canonicalize is called outside any try block
VerifySeal(decision_payload, signature_b64, public_key_b64) ==
    IF ~Serializable(decision_payload) THEN Raise("TypeError")
    ELSE VerifySignature(Sha256(Canonicalize(decision_payload)),
                         signature_b64, public_key_b64)

\* what a for loop over v goes through; None where v is not iterable
Elements(v) ==
    CASE v.t = "list" -> Some(v.items)
      [] v.t = "str" -> Some([i \in 1..Len(v.s) |-> JStr(<<v.s[i]>>)])
      [] v.t = "dict" -> Some([i \in 1..Len(v.items) |-> JStr(v.items[i][1])])
      [] OTHER -> None

\* hash(v) raises TypeError
Unhashable(v) == v.t \in {"list", "dict"}

\* mutation: a seal that declares another algorithm than Ed25519 is refused
KoraVerifySeal_checks_algorithm(auth, kora_public_key) ==
    IF IsNone(auth.notary_seal) THEN Bool(FALSE)
    ELSE LET seal == Get(auth.notary_seal)
             fields == Elements(seal.signed_fields)
         IN  IF seal.algorithm # <<"E", "d", "2", "5", "5", "1", "9">> THEN Bool(FALSE)
             ELSE IF IsNone(fields) THEN Raise("TypeError")
             ELSE IF \E i \in 1..Len(Get(fields)) : Unhashable(Get(fields)[i])
             THEN Raise("TypeError")
             ELSE VerifySeal(JDict(DecisionPayload(Get(fields), FieldMap(auth))),
                             seal.signature, kora_public_key)

\* Kora.verify_seal(result, kora_public_key)
KoraVerifySeal(auth, kora_public_key) ==
    IF IsNone(auth.notary_seal) THEN Bool(FALSE)
    ELSE LET seal == Get(auth.notary_seal)
             fields == Elements(seal.signed_fields)
         IN  IF IsNone(fields) THEN Raise("TypeError")
             ELSE IF \E i \in 1..Len(Get(fields)) : Unhashable(Get(fields)[i])
             THEN Raise("TypeError")
             ELSE VerifySeal(JDict(DecisionPayload(Get(fields), FieldMap(auth))),
                             seal.signature, kora_public_key)

\* the two decisions
DecisionApproved == <<"A", "P", "P", "R", "O", "V", "E", "D">>
DecisionDenied == <<"D", "E", "N", "I", "E", "D">>

\* an AuthorizationResult with this decision and no seal
BaseResult(decision) ==
    [intent_id |-> JStr(<<"i", "1">>), mandate_id |-> JStr(<<"m", "1">>),
     mandate_version |-> JInt(1), decision |-> JStr(decision),
     reason_code |-> JStr(<<"O", "K">>), amount_cents |-> JInt(5),
     currency |-> JStr(EUR), vendor_id |-> JStr(<<"a">>),
     evaluated_at |-> JStr(<<"t", "0">>), ttl_seconds |-> JInt(3),
     enforcement_mode |-> JNull, executable |-> JBool(TRUE),
     decision_id |-> JStr(<<"d", "1">>), trace_url |-> JNull,
     notary_seal |-> None]

\* a value of the same kind that is not v; the other decision for a decision
OtherValue(v) ==
    CASE v.t = "int" -> JInt(v.n + 1)
      [] v.t = "bool" -> JBool(~v.b)
      [] v.t = "str" -> IF v.s = DecisionApproved THEN JStr(DecisionDenied)
                        ELSE IF v.s = DecisionDenied THEN JStr(DecisionApproved)
                        ELSE JStr(v.s \o <<"x">>)
      [] OTHER -> JStr(<<"x">>)

\* the results that differ from auth in one attribute other than the seal:
\* another value, or for two of them a value without a JSON form
Altered(auth) ==
    {[auth EXCEPT ![f] = OtherValue(auth[f])] : f \in ResultFields}
    \cup {[auth EXCEPT ![f] = JObject] : f \in {"amount_cents", "decision_id"}}

\* the lists of names a seal declares
SignedFieldLists ==
    {<<"intent_id", "status">>, <<"status", "intent_id">>,
     <<"intent_id", "decision">>, <<"intent_id", "status", "nonce">>,
     <<"nonce", "status", "intent_id">>, <<"status", "intent_id", "status">>,
     <<"amount_cents", "currency", "vendor_id">>, <<>>,
     <<"intent_id", "mandate_id", "mandate_version", "status", "reason_code",
       "amount_cents", "currency", "vendor_id", "evaluated_at", "ttl_seconds",
       "enforcement_mode", "executable">>}
    \cup {<<n>> : n \in DOMAIN FieldNames}

\* signed_fields as the parsed JSON list of strs
NamesJson(names) == JList([i \in 1..Len(names) |-> JStr(FieldNames[names[i]])])

\* the attribute of the result that a name of signed_fields stands for:
\* the decision goes by status or by decision, nonce names none
AttributeOf(name) ==
    IF name = "status" THEN Some("decision")
    ELSE IF name \in ResultFields THEN Some(name)
    ELSE None

\* the subset of the record that the names declare: the items of the dict
RECURSIVE SignedSubset(_, _)
SignedSubset(auth, names) ==
    IF Len(names) = 0 THEN <<>>
    ELSE LET before == SignedSubset(auth, SubSeq(names, 1, Len(names) - 1))
             n == names[Len(names)]
         IN  IF ~IsNone(AttributeOf(n)) /\ ~HasKey(before, FieldNames[n])
             THEN Append(before, <<FieldNames[n], auth[Get(AttributeOf(n))]>>)
             ELSE before

\* the signature of a seal: the server signs
\* SHA-256(canonical_json(decision_payload))
IssueSeal(decision_payload, seed) ==
    B64Encode(NaclSign(seed, Sha256(Canonicalize(JDict(decision_payload)))))

NotarySeal(signature, signed_fields) ==
    [signature |-> signature, signed_fields |-> signed_fields,
     public_key_id |-> <<"k">>, algorithm |-> <<"E", "d", "2", "5", "5", "1", "9">>,
     timestamp |-> <<"t", "0">>, payload_hash |-> None]

\* the seal the server of this seed issues over the subset of auth that the
\* names declare
IssuedSeal(auth, names, seed) ==
    NotarySeal(PyStr(IssueSeal(SignedSubset(auth, names), seed)), NamesJson(names))

\* signed_fields that is no list of strs: null, a list holding a list, a
\* list holding an int and None before the names; and a str
MalformedFields(names) ==
    {JNull, JList(<<JList(<<>>)>> \o NamesJson(names).items),
     JList(<<JInt(1), JNull>> \o NamesJson(names).items),
     JStr(FieldNames.status)}

SealSeeds == {s \in Seeds : s[1] # 0}

\* Kora.verify_seal is about to be called. A server issued a seal over the
\* declared subset of a record; the result handed over is that record or
\* one altered in one attribute, with that seal and the server's public
\* key; or it is the record with a seal whose signed_fields or signature
\* is malformed, or with another or a malformed public key, or without seal.
InitVerifySeal ==
    /\ NoEngine /\ kora = NoKora /\ retries = 0
    /\ ret = NoRet
    /\ \E d \in {DecisionApproved, DecisionDenied}, names \in SignedFieldLists,
          seed \in SealSeeds :
         \E seal \in {IssuedSeal(BaseResult(d), names, seed)},
            key \in {PyStr(B64Encode(PublicKeyOf(seed)))} :
          \/ \E auth \in {BaseResult(d)} \cup Altered(BaseResult(d)) :
                call = [op |-> "verify_seal",
                        result |-> [auth EXCEPT !.notary_seal = Some(seal)],
                        kora_public_key |-> key,
                        issued |-> Some([record |-> BaseResult(d), names |-> names])]
          \/ \E bad \in {[seal EXCEPT !.signed_fields = f] : f \in MalformedFields(names)}
                        \cup {[seal EXCEPT !.signature = g] : g \in BadSignatures} :
                call = [op |-> "verify_seal",
                        result |-> [BaseResult(d) EXCEPT !.notary_seal = Some(bad)],
                        kora_public_key |-> key,
                        issued |-> None]
          \/ \E k \in PublicKeyInputs :
                /\ k.key_of # Some(seed)
                /\ call = [op |-> "verify_seal",
                           result |-> [BaseResult(d) EXCEPT !.notary_seal = Some(seal)],
                           kora_public_key |-> k.b64,
                           issued |-> None]
          \/ call = [op |-> "verify_seal",
                     result |-> BaseResult(d),
                     kora_public_key |-> key,
                     issued |-> None]

\* Kora.verify_seal(result, kora_public_key) returns or raises
VerifySealCall ==
    /\ call.op = "verify_seal" /\ ret = NoRet
    /\ ret' = KoraVerifySeal(call.result, call.kora_public_key)
    /\ UNCHANGED <<kora, retries, config, engine, today, call, approved_today, thr>>

SpecVerifySeal == InitVerifySeal /\ [][VerifySealCall]_vars

\* the seals that differ from seal in nothing but algorithm, public_key_id,
\* timestamp and payload_hash: one of them changed, or all four
SealVariants(seal) ==
    {seal,
     [seal EXCEPT !.algorithm = <<"n", "o", "n", "e">>],
     [seal EXCEPT !.public_key_id = <<"k", "2">>],
     [seal EXCEPT !.timestamp = <<"t", "9">>],
     [seal EXCEPT !.payload_hash = Some(<<"s", "h", "a", "2", "5", "6", ":", "x">>)],
     [seal EXCEPT !.algorithm = <<"R", "S", "2", "5", "6">>, !.public_key_id = <<>>,
                  !.timestamp = <<>>, !.payload_hash = Some(<<>>)]}

\* Kora.verify_seal is about to be called with a seal that is a variant of
\* the seal `unvaried`: one a server issued over the declared subset of a
\* record, or that with a bad signature or malformed signed_fields; the
\* record is the one sealed or one altered in one attribute
InitSealVariants ==
    /\ NoEngine /\ kora = NoKora /\ retries = 0
    /\ ret = NoRet
    /\ \E d \in {DecisionApproved, DecisionDenied}, seed \in SealSeeds,
          names \in {<<"intent_id", "status">>, <<"amount_cents", "currency", "vendor_id">>,
                     <<"nonce", "status", "intent_id">>} :
         \E issued \in {IssuedSeal(BaseResult(d), names, seed)} :
            \E auth \in {BaseResult(d),
                          [BaseResult(d) EXCEPT !.intent_id = OtherValue(@)],
                          [BaseResult(d) EXCEPT !.decision_id = OtherValue(@)]},
               unvaried \in {issued,
                             [issued EXCEPT !.signature = PyStr(<<"A">>)],
                             [issued EXCEPT !.signed_fields = JNull]} :
               \E seal \in SealVariants(unvaried) :
                  call = [op |-> "verify_seal",
                          result |-> [auth EXCEPT !.notary_seal = Some(seal)],
                          kora_public_key |-> PyStr(B64Encode(PublicKeyOf(seed))),
                          issued |-> None,
                          unvaried |-> unvaried]

SpecSealVariants == InitSealVariants /\ [][VerifySealCall]_vars

\* ------------------------------------------------ parse_agent_key (crypto)
\* the texts given as the hex part of a key payload, each with the bytes it
\* writes where it is hexadecimal: the 64 digits of a seed in lower and in
\* upper case, two bytes, 33 bytes, none, an odd number of digits, a text
\* with a letter that is no digit, and 32 bytes with a blank after each
HexParts ==
    {[text |-> Hex(seed), bytes |-> Some(seed)] : seed \in Seeds}
    \cup {[text |-> [i \in 1..(2 * SeedBytes) |-> UpperChar(Hex(seed)[i])],
           bytes |-> Some(seed)] : seed \in {s \in Seeds : s[1] = 171}}
    \cup {[text |-> <<"a", "a", "b", "b">>, bytes |-> Some(<<170, 187>>)],
          [text |-> Hex([i \in 1..(SeedBytes + 1) |-> i]),
           bytes |-> Some([i \in 1..(SeedBytes + 1) |-> i])],
          [text |-> <<>>, bytes |-> Some(<<>>)],
          [text |-> SubSeq(Hex([i \in 1..SeedBytes |-> i]), 1, 2 * SeedBytes - 1),
           bytes |-> None],
          [text |-> <<"z", "z">> \o Hex([i \in 1..(SeedBytes - 1) |-> i]),
           bytes |-> None],
          [text |-> [i \in 1..(3 * SeedBytes) |->
                        IF i % 3 = 0 THEN " " ELSE <<"a", "b">>[i % 3]],
           bytes |-> None]}

\* the agent ids of a key payload, the empty one among them
PayloadAgentIds == AgentIds \cup {<<>>}

\* the payloads: agent_id:hex, the two without separator, and agent_id:b:hex
Payloads ==
    {[text |-> a \o <<":">> \o h.text, separators |-> 1, agent_id |-> a, hex |-> h]
        : a \in PayloadAgentIds, h \in HexParts}
    \cup {[text |-> a \o h.text, separators |-> 0, agent_id |-> a, hex |-> h]
        : a \in PayloadAgentIds, h \in HexParts}
    \cup {[text |-> a \o <<":", "b", ":">> \o h.text, separators |-> 2, agent_id |-> a,
           hex |-> [text |-> <<"b", ":">> \o h.text, bytes |-> None]]
        : a \in PayloadAgentIds, h \in HexParts}

\* the bytes of a payload: its UTF-8 encoding, or that after a byte 255
PayloadBytes(p) ==
    {[bytes |-> EncodeUtf8(p.text), utf8 |-> TRUE],
     [bytes |-> <<255>> \o EncodeUtf8(p.text), utf8 |-> FALSE]}

\* text with the character c put after its first k characters, or at its
\* end where it is shorter
InsertAt(text, k, c) ==
    [i \in 1..(Len(text) + 1) |->
        IF i <= k /\ i <= Len(text) THEN text[i]
        ELSE IF i = k + 1 \/ (i = Len(text) + 1 /\ Len(text) < k) THEN c
        ELSE text[i - 1]]

\* the text given as base64 of data: the encoding; the encoding without its
\* last character, where it has one; with a "!" after its sixth character;
\* with a blank at its end
Base64Parts(data) ==
    {[text |-> B64Encode(data), form |-> "exact"],
     [text |-> InsertAt(B64Encode(data), 6, "!"), form |-> "other_character"],
     [text |-> B64Encode(data) \o <<" ">>, form |-> "blank_at_end"]}
    \cup {[text |-> [i \in 1..(Len(B64Encode(data)) - 1) |-> B64Encode(data)[i]],
            form |-> "cut"] : n \in {Len(B64Encode(data))} \ {0}}

\* what a key string starts with: the prefix, the prefix of a public key, or
\* nothing
Prefixes ==
    {AGENT_SK_PREFIX,
     <<"k", "o", "r", "a", "_", "a", "g", "e", "n", "t", "_", "p", "k", "_">>,
     <<>>}

\* parse_agent_key is about to be called with a key string, kept together
\* with the way it was built
InitParseKey ==
    /\ NoEngine /\ kora = NoKora /\ retries = 0
    /\ ret = NoRet
    /\ \E p \in Payloads, prefix \in Prefixes :
          \E d \in PayloadBytes(p) :
             \E e \in Base64Parts(d.bytes) :
                call = [op |-> "parse_agent_key",
                        key_string |-> prefix \o e.text,
                        prefix |-> prefix,
                        base64 |-> e.form,
                        utf8 |-> d.utf8,
                        separators |-> p.separators,
                        agent_id |-> p.agent_id,
                        hex |-> p.hex]

\* parse_agent_key(key_string) returns or raises
ParseAgentKeyCall ==
    /\ call.op = "parse_agent_key" /\ ret = NoRet
    /\ ret' = ParseAgentKey(call.key_string)
    /\ UNCHANGED <<kora, retries, config, engine, today, call, approved_today, thr>>

SpecParseKey == InitParseKey /\ [][ParseAgentKeyCall]_vars

\* ----------------------------------------------------- the Kora facade
\* dict.get(key, default) on a record standing for a dict
DictGet(d, k, default) == IF k \in DOMAIN d THEN d[k] ELSE default

\* _build_spend_result(raw): the SpendResult built from the dict returned by
\* the engine. The dataclass has exactly these fields; the keys payment and
\* executable of the dict are not read.
BuildSpendResult(raw) ==
    LET seal == DictGet(raw, "seal", None)
    IN  [approved |-> DictGet(raw, "approved", DictGet(raw, "decision", "") = "APPROVED"),
         decision |-> DictGet(raw, "decision", ""),
         reason_code |-> DictGet(raw, "reason_code", ""),
         suggestion |-> DictGet(raw, "suggestion", None),
         retry_with |-> DictGet(raw, "retry_with", None),
         seal |-> IF IsNone(seal) THEN None ELSE seal,
         enforcement_mode |-> DictGet(raw, "enforcement_mode", "enforce"),
         amount_cents |-> IF "amount_cents" \in DOMAIN raw THEN Some(raw.amount_cents) ELSE None,
         currency |-> IF "currency" \in DOMAIN raw THEN Some(raw.currency) ELSE None,
         vendor_id |-> IF "vendor_id" \in DOMAIN raw THEN Some(raw.vendor_id) ELSE None,
         raw |-> DictGet(raw, "raw", raw)]

\* Kora.spend in sandbox mode: what the caller gets for the engine's return
\* value r, an exception of the engine passing through unchanged
KoraSpend(r) == IF r.kind = "record" THEN [kind |-> "SpendResult", value |-> BuildSpendResult(r)]
                ELSE r

\* getattr(obj, name) on a dataclass instance: the names that are not fields
\* raise AttributeError
HasAttr(obj, name) == name \in DOMAIN obj
\* ------------------------------------------------- Kora.authorize (client)
DEFAULT_TTL == 300

\* str(uuid.uuid4()) and os.urandom(16) are modelled by their contract: the
\* k-th value drawn from each source is a value no other draw gives
Uuid4(k) == <<"u", "u", "i", "d", "-">> \o Digits(k)
Urandom(k) == [i \in 1..16 |-> IF i = 16 THEN k % 256 ELSE (k \div 256) % 256]

\* bool(v) of an argument that is None or a dict
NonEmptyDict(v) == ~IsNone(v) /\ Len(Get(v).items) > 0

\* build_signed_fields(...): the items of the dict in insertion order
BuildSignedFields(intent_id, agent_id, mandate_id, amount_cents, currency_code, vendor_id, nonce, ttl_seconds, payment_instruction, metadata) ==
    JDict(<< <<FieldNames.intent_id, JStr(intent_id)>>,
             <<<<"a", "g", "e", "n", "t", "_", "i", "d">>, JStr(agent_id)>>,
             <<FieldNames.mandate_id, JStr(mandate_id)>>,
             <<FieldNames.amount_cents, JInt(amount_cents)>>,
             <<FieldNames.currency, JStr(currency_code)>>,
             <<FieldNames.vendor_id, JStr(vendor_id)>>,
             <<FieldNames.nonce, JStr(nonce)>>,
             <<FieldNames.ttl_seconds, JInt(ttl_seconds)>> >>
          \o (IF NonEmptyDict(payment_instruction)
              THEN << <<<<"p", "a", "y", "m", "e", "n", "t", "_", "i", "n", "s", "t",
                          "r", "u", "c", "t", "i", "o", "n">>, Get(payment_instruction)>> >>
              ELSE <<>>)
          \o (IF NonEmptyDict(metadata)
              THEN << <<<<"m", "e", "t", "a", "d", "a", "t", "a">>, Get(metadata)>> >>
              ELSE <<>>))

\* bool(v) of an argument that is None or a str
NonEmptyStr(v) == ~IsNone(v) /\ Len(Get(v)) > 0

\* the body of the request of an attempt: the items of the dict in
\* insertion order, the optional ones where the argument is truthy
RequestBody(intent_id, agent_id, args, nonce, ttl_seconds) ==
    JDict(<< <<FieldNames.intent_id, JStr(intent_id)>>,
             <<<<"a", "g", "e", "n", "t", "_", "i", "d">>, JStr(agent_id)>>,
             <<FieldNames.mandate_id, JStr(args.mandate)>>,
             <<FieldNames.amount_cents, JInt(args.amount)>>,
             <<FieldNames.currency, JStr(args.currency)>>,
             <<FieldNames.vendor_id, JStr(args.vendor)>>,
             <<FieldNames.nonce, JStr(nonce)>>,
             <<FieldNames.ttl_seconds, JInt(ttl_seconds)>> >>
          \o (IF NonEmptyStr(args.category)
              THEN << <<<<"c", "a", "t", "e", "g", "o", "r", "y">>, JStr(Get(args.category))>> >>
              ELSE <<>>)
          \o (IF NonEmptyStr(args.purpose)
              THEN << <<<<"p", "u", "r", "p", "o", "s", "e">>, JStr(Get(args.purpose))>> >>
              ELSE <<>>)
          \o (IF NonEmptyDict(args.payment_instruction)
              THEN << <<<<"p", "a", "y", "m", "e", "n", "t", "_", "i", "n", "s", "t",
                          "r", "u", "c", "t", "i", "o", "n">>, Get(args.payment_instruction)>> >>
              ELSE <<>>)
          \o (IF NonEmptyDict(args.metadata)
              THEN << <<<<"m", "e", "t", "a", "d", "a", "t", "a">>, Get(args.metadata)>> >>
              ELSE <<>>))

\* the nonce of an attempt: drawn before the loop
AttemptNonce_drawn_once(k) == B64Encode(Urandom(k.urandoms - k.attempt + 1))

\* the nonce of an attempt: base64 of the next 16 bytes of os.urandom
AttemptNonce(k) == B64Encode(Urandom(k.urandoms + 1))

\* the request of one attempt of authorize: signed_fields, its signature,
\* the body and the headers handed to requests.post; simulate and
\* admin_key are not given
AttemptRequest(k, args) ==
    LET nonce == AttemptNonce(k)
        ttl_seconds == IF ~IsNone(args.ttl) /\ Get(args.ttl) # 0 THEN Get(args.ttl)
                       ELSE DEFAULT_TTL
        signed_fields == BuildSignedFields(k.intent_id, k.agent_id, args.mandate,
                             args.amount, args.currency, args.vendor, nonce,
                             ttl_seconds, args.payment_instruction, args.metadata)
    IN  [signed_fields |-> signed_fields,
         body |-> RequestBody(k.intent_id, k.agent_id, args, nonce, ttl_seconds),
         headers |-> [signature |-> SignMessage(Canonicalize(signed_fields), k.signing_key),
                      agent_id |-> k.agent_id]]

\* raw.get("decision") or raw.get("status") or "DENIED", for the dict d:
\* a value that is None or falsy gives way to the next. The values of
\* decision and status are Python values (PyStr, PyInt, PyNone).
ResponseDecision_default_approved(d) ==
    IF Truthy(DictGet(d, "decision", PyNone)) THEN d.decision
    ELSE IF Truthy(DictGet(d, "status", PyNone)) THEN d.status
    ELSE PyStr(DecisionApproved)

ResponseDecision(d) ==
    IF Truthy(DictGet(d, "decision", PyNone)) THEN d.decision
    ELSE IF Truthy(DictGet(d, "status", PyNone)) THEN d.status
    ELSE PyStr(DecisionDenied)

\* AuthorizationResult.approved
ResultApproved(res) == res.decision = PyStr(DecisionApproved)

\* parse_response(raw) for the raw of a response; of the nested objects
\* the notary_seal is kept, whose keys _parse_seal reads
ParseResponse(raw) ==
    IF raw.kind # "dict" THEN Raise("AttributeError")
    ELSE IF /\ "notary_seal" \in DOMAIN raw.value
            /\ {"signature", "public_key_id", "algorithm", "signed_fields", "timestamp"}
                  \ DOMAIN raw.value.notary_seal # {}
    THEN Raise("KeyError")
    ELSE [kind |-> "AuthorizationResult",
          value |->
            [decision |-> ResponseDecision(raw.value),
             decision_id |-> DictGet(raw.value, "decision_id", ""),
             intent_id |-> DictGet(raw.value, "intent_id", ""),
             reason_code |-> DictGet(raw.value, "reason_code", ""),
             trace_url |-> DictGet(raw.value, "trace_url", ""),
             executable |-> DictGet(raw.value, "executable", FALSE),
             enforcement_mode |-> DictGet(raw.value, "enforcement_mode", None),
             amount_cents |-> DictGet(raw.value, "amount_cents", None),
             currency |-> DictGet(raw.value, "currency", None),
             vendor_id |-> DictGet(raw.value, "vendor_id", None),
             notary_seal |-> IF "notary_seal" \in DOMAIN raw.value
                             THEN Some(raw.value.notary_seal) ELSE None]]

KoraError(code, message, status_code) ==
    [kind |-> "raise", exc |-> "KoraError", code |-> code, message |-> message,
     status_code |-> status_code]

\* the try block of authorize after requests.post has returned resp:
\* resp.json() is called first and raises for a body that is no JSON, the
\* status is checked next, raw.get raising for a JSON value that is no dict
HandleResponse(resp) ==
    IF resp.raw.kind = "text" THEN Raise("JSONDecodeError")
    ELSE IF resp.status_code >= 400
    THEN IF resp.raw.kind # "dict" THEN Raise("AttributeError")
         ELSE KoraError(DictGet(resp.raw.value, "error", "UNKNOWN_ERROR"),
                        DictGet(resp.raw.value, "message", <<"HTTP", resp.status_code>>),
                        resp.status_code)
    ELSE ParseResponse(resp.raw)

\* the exceptions of requests.post that the loop retries after:
\* requests.ConnectionError and requests.Timeout
NetworkErrors == {"ConnectionError", "Timeout"}

\* what requests.post does: it raises a network error or another
\* exception, or returns a response
Bodies ==
    {[kind |-> "dict",
      value |-> [decision |-> PyStr(DecisionApproved), decision_id |-> "d1", reason_code |-> "OK",
                 executable |-> TRUE,
                 notary_seal |-> [signature |-> "sig", public_key_id |-> "k",
                                  algorithm |-> "Ed25519",
                                  signed_fields |-> <<"intent_id", "status">>,
                                  timestamp |-> "t0"]]],
     [kind |-> "dict",
      value |-> [status |-> PyStr(DecisionDenied), reason_code |-> "DAILY_LIMIT_EXCEEDED",
                 trace_url |-> "/v1/traces/1"]],
     [kind |-> "dict", value |-> [error |-> "RATE_LIMITED", message |-> "slow down"]],
     [kind |-> "dict", value |-> [decision |-> PyStr(DecisionApproved),
                                  notary_seal |-> [signature |-> "sig"]]],
     [kind |-> "dict", value |-> <<>>],
     [kind |-> "list"],
     [kind |-> "text"]}

PostOutcomes ==
    {[kind |-> "raise", exc |-> e] : e \in NetworkErrors \cup {"TooManyRedirects"}}
    \cup {[kind |-> "response", status_code |-> c, raw |-> b] :
             c \in {200, 502}, b \in Bodies}

\* the arguments of authorize: the required ones alone, or with a ttl and a
\* payment_instruction
AuthorizeArgs ==
    {[op |-> "authorize", mandate |-> <<"m", "1">>, amount |-> 5, currency |-> EUR,
      vendor |-> <<"a">>, ttl |-> o[1], payment_instruction |-> o[2], metadata |-> None,
      category |-> o[3], purpose |-> o[4]]
        : o \in {<<None, None, None, Some(<<>>)>>,
                 <<Some(60), Some(JDict(<< <<<<"i", "b", "a", "n">>, JStr(<<"x">>)>> >>)),
                   Some(<<"f">>), None>>}}

\* Kora(key_string, max_retries=n) has been built
InitAuthorize ==
    /\ NoEngine
    /\ call = NoCall
    /\ ret = NoRet
    /\ retries = 0
    /\ \E n \in (-1)..MaxRetries :
          \E id \in {ParseAgentKey(BuildAgentKey(<<"a">>, [i \in 1..SeedBytes |-> i]))} :
             kora = [pc |-> "idle", agent_id |-> id.agent_id, signing_key |-> id.signing_key,
                     max_retries |-> n, attempt |-> 0, intent_id |-> <<>>,
                     last_error |-> None, outcome |-> None, sent |-> <<>>,
                     uuids |-> 0, urandoms |-> 0, intents |-> <<>>]

\* authorize is called: intent_id is drawn, and the loop is entered
AuthorizeBegin ==
    /\ kora.pc = "idle"
    /\ Len(kora.intents) < MaxCalls
    /\ call' \in AuthorizeArgs
    /\ ret' = NoRet
    /\ kora' = [kora EXCEPT !.pc = "loop", !.attempt = 0,
                            !.intent_id = Uuid4(kora.uuids + 1),
                            !.uuids = kora.uuids + 1,
                            !.intents = Append(kora.intents, Uuid4(kora.uuids + 1)),
                            !.last_error = None, !.outcome = None, !.sent = <<>>]
    /\ UNCHANGED <<retries, config, engine, today, approved_today, thr>>

\* one pass of the loop: the request is built, signed and posted; the call
\* returns the parsed response, raises, or after a network error goes on
\* to the next attempt unless this was the last
AuthorizeAttempt ==
    /\ kora.pc = "loop"
    /\ kora.attempt <= kora.max_retries
    /\ \E request \in {AttemptRequest(kora, call)}, o \in PostOutcomes :
          \E r \in {IF o.kind = "response" THEN HandleResponse(o)
                    ELSE IF o.exc \in NetworkErrors /\ kora.attempt # kora.max_retries
                    THEN NoRet
                    ELSE Raise(o.exc)} :
             /\ ret' = r
             /\ kora' = [kora EXCEPT !.sent = Append(kora.sent, request),
                                     !.urandoms = kora.urandoms + 1,
                                     !.outcome = Some(o),
                                     !.last_error = IF r = NoRet THEN Some(o.exc)
                                                    ELSE kora.last_error,
                                     !.attempt = IF r = NoRet THEN kora.attempt + 1
                                                 ELSE kora.attempt,
                                     !.pc = IF r = NoRet THEN "loop" ELSE "idle"]
             /\ stderr' = IF /\ r.kind = "AuthorizationResult"
                             /\ r.value.decision = PyStr(DecisionDenied) /\ r.value.trace_url # ""
                          THEN stderr + 1 ELSE stderr
    /\ UNCHANGED <<retries, config, daily_spent, monthly_spent, tx_count, warned,
                   start_date, today, call, approved_today, thr>>

\* the loop has ended without a return or a raise: last_error is raised, or
\* RuntimeError where there is none
AuthorizeExhausted ==
    /\ kora.pc = "loop"
    /\ kora.attempt > kora.max_retries
    /\ ret' = IF IsNone(kora.last_error) THEN Raise("RuntimeError")
              ELSE Raise(Get(kora.last_error))
    /\ kora' = [kora EXCEPT !.pc = "idle"]
    /\ UNCHANGED <<retries, config, engine, today, call, approved_today, thr>>

NextAuthorize == AuthorizeBegin \/ AuthorizeAttempt \/ AuthorizeExhausted

SpecAuthorize == InitAuthorize /\ [][NextAuthorize]_vars



\* ----------------------------------------- the self-correcting loop
\* A caller that follows retry_with: after a denial that carries
\* retry_with it may call spend again on the same day with the same vendor
\* and currency and the suggested amount. The limits go one beyond those
\* of Init and the amounts two beyond, so that an amount can exceed a cap
\* that exceeds a daily remainder that exceeds a monthly remainder.
RetryRequests ==
    {Request(PyStr(VendorA), PyInt(n), c) : n \in 1..(MaxLimit + 2), c \in GoodCurrencies}

InitRetry ==
    /\ daily_limit \in 0..(MaxLimit + 1)
    /\ monthly_limit \in 0..(MaxLimit + 1)
    /\ currency = EUR
    /\ per_tx_max \in {None} \cup {Some(n) : n \in 1..(MaxLimit + 1)}
    /\ allowed_vendors = None
    /\ daily_spent = 0
    /\ monthly_spent = 0
    /\ tx_count = 0
    /\ warned = FALSE
    /\ today = 0
    /\ start_date = today
    /\ stderr = 0
    /\ call = NoCall
    /\ ret = NoRet
    /\ approved_today = 0
    /\ pc = [t \in Threads |-> "idle"]
    /\ req = [t \in Threads |-> Request(PyNone, PyNone, PyNone)]
    /\ loc = [t \in Threads |-> NoLocals]
    /\ kora = NoKora /\ retries = 0
    /\ result = [t \in Threads |-> NoRet]

\* a call of spend that follows no suggestion
FirstCall ==
    /\ \E q \in RetryRequests : Spend(q.vendor, q.amount_cents, q.currency)
    /\ retries' = 0

\* the last call was denied with retry_with, and the day has not changed:
\* spend is called again with the amount suggested
RetryCall ==
    /\ call.op = "spend" /\ ret.kind = "record"
    /\ ret.decision = "DENIED" /\ ~IsNone(ret.retry_with)
    /\ start_date = today
    /\ Spend(call.vendor, PyInt(Get(ret.retry_with).amount_cents), call.currency)
    /\ retries' = retries + 1

NextRetry == FirstCall \/ RetryCall \/ Tick

SpecRetry == InitRetry /\ [][NextRetry]_vars

\* ------------------------------------- parse_response and Kora.spend
\* Kora.spend outside sandbox mode, for the AuthorizationResult res that
\* engine.authorize has returned: the dict handed to _build_spend_result.
\* The responses modelled carry no denial object, so suggestion and
\* retry_with are None; message and raw are not kept.
KoraSpendAuthorized(res) ==
    BuildSpendResult(
        [approved |-> ResultApproved(res),
         decision_id |-> res.decision_id,
         decision |-> res.decision,
         reason_code |-> res.reason_code,
         suggestion |-> None,
         retry_with |-> None,
         seal |-> IF IsNone(res.notary_seal) THEN None
                  ELSE Some([k \in {"signature", "public_key_id", "algorithm",
                                    "signed_fields", "timestamp"}
                                |-> Get(res.notary_seal)[k]]),
         enforcement_mode |-> res.enforcement_mode,
         amount_cents |-> res.amount_cents,
         currency |-> res.currency,
         vendor_id |-> res.vendor_id])

\* the values a response may hold under decision and under status
DecisionValues ==
    {PyNone, PyStr(<<>>), PyStr(DecisionApproved), PyStr(DecisionDenied),
     PyStr(Lower(DecisionApproved)), PyStr(DecisionApproved \o <<" ">>),
     PyInt(0), PyInt(1)}

\* a key that is absent, or present with one of the values
OptionalField(name, values) == {<<>>} \cup {[k \in {name} |-> v] : v \in values}

\* the JSON objects of responses with a status below 400
Responses ==
    {[kind |-> "dict", value |-> a @@ b @@ c @@ d] :
        a \in OptionalField("decision", DecisionValues),
        b \in OptionalField("status", DecisionValues),
        c \in OptionalField("executable", {TRUE, FALSE}),
        d \in {<<>>,
               [decision_id |-> "d1", reason_code |-> "OK",
                notary_seal |-> [signature |-> "sig", public_key_id |-> "k",
                                 algorithm |-> "Ed25519",
                                 signed_fields |-> <<"intent_id", "status">>,
                                 timestamp |-> "t0"]]}}

InitParseResponse ==
    /\ NoEngine
    /\ kora = NoKora /\ retries = 0
    /\ call \in {[op |-> o, raw |-> r] : o \in {"parse_response", "Kora.spend"}, r \in Responses}
    /\ ret = NoRet

\* parse_response(raw)
ParseResponseCall ==
    /\ call.op = "parse_response"
    /\ ret = NoRet
    /\ ret' = ParseResponse(call.raw)
    /\ UNCHANGED <<kora, retries, config, engine, today, call, approved_today, thr>>

\* Kora.spend(...) where the server answers with the response call.raw
KoraSpendCall ==
    /\ call.op = "Kora.spend"
    /\ ret = NoRet
    /\ \E res \in {ParseResponse(call.raw)} :
          ret' = IF res.kind = "AuthorizationResult"
                 THEN [kind |-> "SpendResult", value |-> KoraSpendAuthorized(res.value)]
                 ELSE res
    /\ UNCHANGED <<kora, retries, config, engine, today, call, approved_today, thr>>

NextParseResponse == ParseResponseCall \/ KoraSpendCall

SpecParseResponse == InitParseResponse /\ [][NextParseResponse]_vars

\* ------------------------------------------------------------ KoraAuto
\* the window of the warning throttle, in seconds
THROTTLE_SECONDS == 60

\* KoraAuto._warn(vendor, ..., error) at the time now of time.monotonic():
\* the throttle it leaves and whether it prints a KORA_SCAN_WARN line
ScanWarn(warn_throttle, now, vendor, error) ==
    IF now - DictGet(warn_throttle, <<vendor, error>>, 0) < THROTTLE_SECONDS
    THEN [warn_throttle |-> warn_throttle, printed |-> FALSE]
    ELSE [warn_throttle |-> (<<vendor, error>> :> now) @@ warn_throttle, printed |-> TRUE]

\* the names of the exceptions met in observe
ConnectionError == <<"C", "o", "n", "n", "e", "c", "t", "i", "o", "n", "E", "r", "r", "o", "r">>
JSONDecodeError == <<"J", "S", "O", "N", "D", "e", "c", "o", "d", "e", "E", "r", "r", "o", "r">>

\* what requests.post does in observe: it raises, or returns a response
\* whose body is a JSON value (json) or is none (resp.json() raises)
ObserveOutcomes ==
    {[kind |-> "raise", exc |-> ConnectionError],
     [kind |-> "response", status_code |-> 200, json |-> Some([status |-> "ok"])],
     [kind |-> "response", status_code |-> 200, json |-> None],
     [kind |-> "response", status_code |-> 399, json |-> Some([status |-> "ok"])],
     [kind |-> "response", status_code |-> 400, json |-> Some([status |-> "ok"])],
     [kind |-> "response", status_code |-> 500, json |-> None]}

\* the try block of observe for the outcome o of requests.post: the
\* error_reason handed to _warn, or None where the body is returned
\* mutation: a status of exactly 400 is taken for a success
ErrorReason_above_400(o) ==
    IF o.kind = "raise" THEN Some(Lower(o.exc))
    ELSE IF o.status_code > 400 THEN Some(<<"h", "t", "t", "p", "_">> \o Digits(o.status_code))
    ELSE IF IsNone(o.json) THEN Some(Lower(JSONDecodeError))
    ELSE None

ErrorReason(o) ==
    IF o.kind = "raise" THEN Some(Lower(o.exc))
    ELSE IF o.status_code >= 400 THEN Some(<<"h", "t", "t", "p", "_">> \o Digits(o.status_code))
    ELSE IF IsNone(o.json) THEN Some(Lower(JSONDecodeError))
    ELSE None

\* the seconds that pass between two calls of observe, and the values of
\* time.monotonic() when the KoraAuto is built (its reference point is
\* undefined: the clock may have started just now)
Elapsed == {1, THROTTLE_SECONDS - 1, THROTTLE_SECONDS}
ClockStarts == {0, THROTTLE_SECONDS}

\* KoraAuto(scan_token) has been built. lines is a history field: for each
\* pair (vendor, error) the time of the last KORA_SCAN_WARN line printed
InitObserve ==
    /\ NoEngine
    /\ retries = 0
    /\ call = NoCall
    /\ ret = NoRet
    /\ \E start \in ClockStarts :
          kora = [pc |-> "auto", warn_throttle |-> <<>>, now |-> start, calls |-> 0,
                  lines |-> <<>>]

\* KoraAuto.observe(vendor), called some seconds after the call before
Observe ==
    /\ kora.pc = "auto"
    /\ kora.calls < MaxObserves
    /\ \E vendor \in {VendorA, VendorB}, d \in Elapsed, o \in ObserveOutcomes :
          \E error \in {ErrorReason(o)}, now \in {kora.now + d} :
             \E w \in {IF IsNone(error)
                       THEN [warn_throttle |-> kora.warn_throttle, printed |-> FALSE]
                       ELSE ScanWarn(kora.warn_throttle, now, vendor, Get(error))} :
                /\ call' = [op |-> "observe", vendor |-> PyStr(vendor), outcome |-> o, error |-> error]
                /\ ret' = IF IsNone(error)
                          THEN [kind |-> "dict", value |-> Get(o.json)]
                          ELSE [kind |-> "dict", value |-> [status |-> "error"]]
                /\ stderr' = stderr + (IF w.printed THEN 1 ELSE 0)
                /\ kora' = [kora EXCEPT
                              !.now = now,
                              !.calls = @ + 1,
                              !.warn_throttle = w.warn_throttle,
                              !.lines = IF w.printed
                                        THEN (<<vendor, Get(error)>> :> now) @@ @
                                        ELSE @]
    /\ UNCHANGED <<retries, config, daily_spent, monthly_spent, tx_count, warned,
                   start_date, today, approved_today, thr>>

SpecObserve == InitObserve /\ [][Observe]_vars

\* ------------------------------------------------------------ properties
\* The counters a call works on once its rollover step is done.
DailyAfterRollover == IF today # start_date THEN 0 ELSE daily_spent
MonthlyAfterRollover ==
    IF today # start_date /\ DayOfMonth(today) = 1 THEN 0 ELSE monthly_spent

\* the step is a call of spend, whose request is call'
IsSpend == call'.op = "spend" /\ today' = today
IsGetBudget == call'.op = "get_budget" /\ today' = today
IsReset == call'.op = "reset" /\ today' = today

\* the request passes the input validation of spend
PassesValidation(q) ==
    /\ q.amount_cents.t = "int" /\ q.amount_cents.n > 0
    /\ q.vendor.t = "str" /\ Len(q.vendor.s) > 0
    /\ q.currency.t = "str" /\ Len(q.currency.s) = 3

FailsCurrency(q) == Upper(q.currency.s) # currency
FailsVendor(q) ==
    allowed_vendors # None /\ Lower(Strip(q.vendor.s)) \notin allowed_vendors[1]
FailsPerTx(q) == per_tx_max # None /\ q.amount_cents.n > per_tx_max[1]
FailsDaily(q) == q.amount_cents.n > daily_limit - DailyAfterRollover
FailsMonthly(q) == q.amount_cents.n > monthly_limit - MonthlyAfterRollover

\* what the step's call added to the budget: the amount of an APPROVED spend
ApprovedAmount ==
    IF call'.op = "spend" /\ ret'.kind = "record" /\ ret'.decision = "APPROVED"
    THEN call'.amount_cents.n ELSE 0

\* C1: with limits >= 0 and calls made one at a time, both counters stay
\* between 0 and their limit, whatever the date does between the calls.
C1_CountersWithinLimits ==
    /\ 0 <= daily_spent /\ daily_spent <= daily_limit
    /\ 0 <= monthly_spent /\ monthly_spent <= monthly_limit

\* an approval on a later day has filled both budgets exactly
C1_Witness ==
    /\ call.op = "spend" /\ ret.kind = "record" /\ ret.decision = "APPROVED"
    /\ today > 0
    /\ daily_spent = daily_limit
    /\ monthly_spent = monthly_limit

\* C2: a DENIED spend leaves both counters as the rollover step left them,
\* an APPROVED spend adds amount_cents to both; the two counters never
\* move apart in one call.
C2_CounterAtomicity ==
    [][(IsSpend /\ ret'.kind = "record") =>
          /\ ret'.decision = "DENIED" =>
                /\ daily_spent' = DailyAfterRollover
                /\ monthly_spent' = MonthlyAfterRollover
          /\ ret'.decision = "APPROVED" =>
                /\ daily_spent' = DailyAfterRollover + call'.amount_cents.n
                /\ monthly_spent' = MonthlyAfterRollover + call'.amount_cents.n
          /\ ret'.decision \in {"APPROVED", "DENIED"}
          /\ daily_spent' - DailyAfterRollover = monthly_spent' - MonthlyAfterRollover]_vars

\* an approval on top of a monthly total carried over from an earlier day
C2_Witness ==
    /\ call.op = "spend" /\ ret.kind = "record" /\ ret.decision = "APPROVED"
    /\ monthly_spent > daily_spent
    /\ daily_spent = call.amount_cents.n

\* C3: a validated request gets the reason code of the first failing check
\* in the order currency, allow-list, per-transaction cap, daily, monthly,
\* and is APPROVED with OK exactly when no check fails.
FirstFailing(q) ==
    IF FailsCurrency(q) THEN "CURRENCY_MISMATCH"
    ELSE IF FailsVendor(q) THEN "VENDOR_NOT_ALLOWED"
    ELSE IF FailsPerTx(q) THEN "PER_TRANSACTION_LIMIT_EXCEEDED"
    ELSE IF FailsDaily(q) THEN "DAILY_LIMIT_EXCEEDED"
    ELSE IF FailsMonthly(q) THEN "MONTHLY_LIMIT_EXCEEDED"
    ELSE "OK"

C3_FirstFailingCheckWins ==
    [][(IsSpend /\ PassesValidation(call')) =>
          /\ ret'.kind = "record"
          /\ ret'.reason_code = FirstFailing(call')
          /\ (ret'.decision = "APPROVED") = (FirstFailing(call') = "OK")
          /\ (ret'.decision = "DENIED") = (FirstFailing(call') # "OK")]_vars

\* a request that fails both the currency check and the daily limit was
\* denied CURRENCY_MISMATCH
C3_Witness ==
    /\ call.op = "spend"
    /\ ret.kind = "record"
    /\ ret.reason_code = "CURRENCY_MISMATCH"
    /\ call.amount_cents.n > daily_limit - daily_spent
    /\ daily_spent > 0

\* the labels of spend after the daily check, and after the monthly check
PastDailyCheck ==
    {"monthly", "load_daily", "store_daily", "load_monthly", "store_monthly",
     "load_tx", "store_tx", "approved"}
PastMonthlyCheck == PastDailyCheck \ {"monthly"}

IsApproved(t) ==
    pc[t] = "done" /\ result[t].kind = "record" /\ result[t].decision = "APPROVED"

\* C4: when calls of spend overlap, each is approved on the remaining
\* budget it read at its own check, whatever the other call does before
\* the increment: a call past a check had amount <= the remaining budget
\* it computed, and an approved call passed both its checks. Nothing ties
\* the approved total of a day to daily_limit (the witness).
C4_ApprovedOnBudgetRead ==
    \A t \in Threads :
        /\ pc[t] \in PastDailyCheck \cup (IF IsApproved(t) THEN {"done"} ELSE {}) =>
              req[t].amount_cents.n <= loc[t].daily_remaining
        /\ pc[t] \in PastMonthlyCheck \cup (IF IsApproved(t) THEN {"done"} ELSE {}) =>
              req[t].amount_cents.n <= loc[t].monthly_remaining

\* both calls were approved on the same day and together exceed daily_limit
C4_Witness ==
    /\ \A t \in Threads : IsApproved(t)
    /\ today = 0 /\ start_date = 0
    /\ req["t1"].amount_cents.n <= daily_limit
    /\ req["t2"].amount_cents.n <= daily_limit
    /\ req["t1"].amount_cents.n + req["t2"].amount_cents.n > daily_limit

\* C5: every spend and get_budget starts with the rollover: on a new UTC
\* date the daily counter restarts from 0 and the stored day becomes today,
\* on the stored day no counter is touched by it; after the call the stored
\* day is today, so later calls of that day roll nothing over.
C5_RolloverAtCallStart ==
    [][(IsSpend \/ IsGetBudget) =>
          /\ start_date' = today
          /\ today # start_date => daily_spent' = ApprovedAmount
          /\ today = start_date =>
                /\ daily_spent' = daily_spent + ApprovedAmount
                /\ monthly_spent' = monthly_spent + ApprovedAmount]_vars

\* a budget query after a day crossing inside the month: the daily counter
\* is back to 0, the monthly total is kept
C5_Witness ==
    /\ call.op = "get_budget"
    /\ today > 0 /\ start_date = today
    /\ daily_spent = 0
    /\ monthly_spent > 0

\* C6: the first spend or get_budget call after the date has moved into
\* another calendar month works on monthly_spent = 0.
C6_NewMonthStartsAtZero ==
    [][((IsSpend \/ IsGetBudget) /\ MonthOf(today) # MonthOf(start_date)) =>
          monthly_spent' - ApprovedAmount = 0]_vars

\* C7: after the currency, allow-list and per-transaction checks, the
\* request is denied DAILY_LIMIT_EXCEEDED exactly when the amount exceeds
\* daily_limit - daily_spent, with retry_with the remaining amount when it
\* is positive and no retry_with otherwise, the suggestion always there;
\* the monthly check does the same once the daily check has passed.
C7_RemainingBudgetChecks ==
    [][(/\ IsSpend /\ PassesValidation(call')
        /\ ~FailsCurrency(call') /\ ~FailsVendor(call') /\ ~FailsPerTx(call')) =>
          LET a == call'.amount_cents.n
              daily_remaining == daily_limit - DailyAfterRollover
              monthly_remaining == monthly_limit - MonthlyAfterRollover
          IN  /\ ret'.kind = "record"
              /\ (ret'.reason_code = "DAILY_LIMIT_EXCEEDED") = (a > daily_remaining)
              /\ a > daily_remaining =>
                    /\ ret'.decision = "DENIED"
                    /\ ret'.suggestion # None
                    /\ ret'.retry_with =
                          IF daily_remaining > 0
                          THEN Some([amount_cents |-> daily_remaining]) ELSE None
              /\ (ret'.reason_code = "MONTHLY_LIMIT_EXCEEDED") =
                    (a <= daily_remaining /\ a > monthly_remaining)
              /\ (a <= daily_remaining /\ a > monthly_remaining) =>
                    /\ ret'.decision = "DENIED"
                    /\ ret'.suggestion # None
                    /\ ret'.retry_with =
                          IF monthly_remaining > 0
                          THEN Some([amount_cents |-> monthly_remaining]) ELSE None]_vars

\* a daily denial that suggests the positive remaining amount
C7_Witness ==
    /\ call.op = "spend" /\ ret.kind = "record"
    /\ ret.reason_code = "DAILY_LIMIT_EXCEEDED"
    /\ daily_spent > 0
    /\ ret.retry_with = Some([amount_cents |-> daily_limit - daily_spent])

\* C8: without a cap the per-transaction check denies nothing; with a cap,
\* a request past the currency and allow-list checks is denied
\* PER_TRANSACTION_LIMIT_EXCEEDED exactly when amount_cents > cap, and the
\* denial suggests the cap itself.
C8_PerTransactionCap ==
    [][(IsSpend /\ PassesValidation(call') /\ ~FailsCurrency(call') /\ ~FailsVendor(call')) =>
          /\ ret'.kind = "record"
          /\ (ret'.reason_code = "PER_TRANSACTION_LIMIT_EXCEEDED") =
                (per_tx_max # None /\ call'.amount_cents.n > per_tx_max[1])
          /\ ret'.reason_code = "PER_TRANSACTION_LIMIT_EXCEEDED" =>
                /\ ret'.decision = "DENIED"
                /\ ret'.retry_with = Some([amount_cents |-> per_tx_max[1]])]_vars

\* a per-transaction denial suggesting the cap although less than the cap
\* is left of the daily budget
C8_Witness ==
    /\ call.op = "spend" /\ ret.kind = "record"
    /\ ret.reason_code = "PER_TRANSACTION_LIMIT_EXCEEDED"
    /\ per_tx_max # None
    /\ ret.retry_with = Some([amount_cents |-> per_tx_max[1]])
    /\ daily_spent > 0
    /\ daily_limit - daily_spent < per_tx_max[1]

\* C9: without an allow-list no request is denied VENDOR_NOT_ALLOWED; with
\* one, a request past the currency check is denied VENDOR_NOT_ALLOWED
\* exactly when its normalized vendor is not listed, without retry_with.
C9_VendorAllowList ==
    [][(IsSpend /\ PassesValidation(call') /\ ~FailsCurrency(call')) =>
          /\ ret'.kind = "record"
          /\ (ret'.reason_code = "VENDOR_NOT_ALLOWED") =
                (/\ allowed_vendors # None
                 /\ Lower(Strip(call'.vendor.s)) \notin allowed_vendors[1])
          /\ ret'.reason_code = "VENDOR_NOT_ALLOWED" =>
                /\ ret'.decision = "DENIED"
                /\ ret'.retry_with = None]_vars

\* an unlisted vendor denied although the amount is over the daily budget
C9_Witness ==
    /\ call.op = "spend" /\ ret.kind = "record"
    /\ ret.reason_code = "VENDOR_NOT_ALLOWED"
    /\ ret.retry_with = None
    /\ daily_spent > 0
    /\ call.amount_cents.n > daily_limit - daily_spent

\* the request is well formed: amount_cents a strictly positive integer,
\* vendor non-empty text, currency exactly 3 letters
IsWellFormed(q) ==
    /\ q.amount_cents.t = "int" /\ q.amount_cents.n > 0
    /\ q.vendor.t = "str" /\ Len(q.vendor.s) > 0
    /\ q.currency.t = "str" /\ Len(q.currency.s) = 3
    /\ \A i \in 1..Len(q.currency.s) : IsLetter(q.currency.s[i])

\* C10: a spend whose request is not well formed raises a validation
\* error, returns no decision record and leaves daily_spent, monthly_spent
\* and tx_count as the rollover step left them.
C10_MalformedRequestRaises ==
    [][(IsSpend /\ ~IsWellFormed(call')) =>
          /\ ret'.kind = "raise"
          /\ daily_spent' = DailyAfterRollover
          /\ monthly_spent' = MonthlyAfterRollover
          /\ tx_count' = tx_count]_vars

\* the closed enumeration of reason codes
ReasonCodes ==
    {"OK", "CURRENCY_MISMATCH", "VENDOR_NOT_ALLOWED", "PER_TRANSACTION_LIMIT_EXCEEDED",
     "DAILY_LIMIT_EXCEEDED", "MONTHLY_LIMIT_EXCEEDED"}

\* C11: for every request that passes validation, in every engine state,
\* spend raises nothing and returns a record, from the engine and from the
\* facade alike, whose decision is APPROVED or DENIED, whose reason_code is
\* one of the six codes, and with approved = (decision = APPROVED) =
\* (reason_code = OK).
C11_DenialIsReturned ==
    [][(IsSpend /\ PassesValidation(call')) =>
          /\ ret'.kind = "record"
          /\ KoraSpend(ret').kind = "SpendResult"
          /\ \A r \in {ret', KoraSpend(ret').value} :
                /\ r.decision \in {"APPROVED", "DENIED"}
                /\ r.reason_code \in ReasonCodes
                /\ r.approved = (r.decision = "APPROVED")
                /\ (r.decision = "APPROVED") = (r.reason_code = "OK")]_vars

\* a monthly denial came back as a record with approved = false
C11_Witness ==
    /\ call.op = "spend"
    /\ ret.kind = "record"
    /\ ret.decision = "DENIED"
    /\ ret.reason_code = "MONTHLY_LIMIT_EXCEEDED"
    /\ KoraSpend(ret).value.approved = FALSE

\* two texts are equal up to letter case
EqualsIgnoreCase(s, t) == Lower(s) = Lower(t)

\* C12: currency upper-cased and vendor lower-cased before any check: a
\* currency equal to the mandate's up to letter case passes the currency
\* check, a vendor equal to a lower-case allow-list entry up to letter case
\* passes the allow-list check, and the APPROVED record carries the
\* upper-cased currency and the lower-cased vendor.
C12_CaseNormalization ==
    [][(IsSpend /\ PassesValidation(call')) =>
          /\ ret'.kind = "record"
          /\ EqualsIgnoreCase(call'.currency.s, currency) =>
                ret'.reason_code # "CURRENCY_MISMATCH"
          /\ (/\ allowed_vendors # None
              /\ \E e \in allowed_vendors[1] :
                    e = Lower(e) /\ EqualsIgnoreCase(call'.vendor.s, e)) =>
                ret'.reason_code # "VENDOR_NOT_ALLOWED"
          /\ ret'.decision = "APPROVED" =>
                /\ ret'.currency = Upper(call'.currency.s)
                /\ ret'.vendor_id = Lower(call'.vendor.s)]_vars

\* C12, amended: the vendor is stripped of surrounding blanks and then
\* lower-cased, the currency upper-cased, before any check: a currency
\* equal to the mandate's up to letter case passes the currency check, a
\* vendor whose stripped lower-case form is an allow-list entry passes the
\* allow-list check (an entry written with surrounding blanks or capitals
\* matches no request), and the APPROVED record and the SpendResult carry
\* the upper-cased currency and the stripped lower-cased vendor.
C12_StripAndCaseNormalization ==
    [][(IsSpend /\ PassesValidation(call')) =>
          /\ ret'.kind = "record"
          /\ EqualsIgnoreCase(call'.currency.s, currency) =>
                ret'.reason_code # "CURRENCY_MISMATCH"
          /\ (/\ allowed_vendors # None
              /\ \E e \in allowed_vendors[1] : Lower(Strip(call'.vendor.s)) = e) =>
                ret'.reason_code # "VENDOR_NOT_ALLOWED"
          /\ (/\ allowed_vendors # None
              /\ EqualsIgnoreCase(call'.currency.s, currency)
              /\ \A e \in allowed_vendors[1] : Lower(Strip(call'.vendor.s)) # e) =>
                ret'.reason_code = "VENDOR_NOT_ALLOWED"
          /\ ret'.decision = "APPROVED" =>
                /\ ret'.currency = Upper(call'.currency.s)
                /\ ret'.vendor_id = Lower(Strip(call'.vendor.s))
                /\ KoraSpend(ret').value.currency = Some(ret'.currency)
                /\ KoraSpend(ret').value.vendor_id = Some(ret'.vendor_id)]_vars

\* the request ("A ", "eur") was approved under an allow-list holding "a"
\* and the record carries "a" and "EUR"
C12_Witness ==
    /\ call.op = "spend"
    /\ call.vendor.s = <<"A", " ">>
    /\ call.currency.s = <<"e", "u", "r">>
    /\ allowed_vendors # None
    /\ ret.kind = "record" /\ ret.decision = "APPROVED"
    /\ ret.vendor_id = VendorA
    /\ ret.currency = EUR

\* spend on an engine of this mandate whose counters are d and m, whose
\* stored day is sd and whose transaction count is tx, called with request
\* q on date now: what it returns or raises and the counters it leaves
SpendOutcome(d, m, sd, tx, now, q) ==
    LET r == AutoResetIfNewDay(d, m, sd, now)
        err == Validate(q.vendor, q.amount_cents, q.currency)
    IN  IF err # "ok"
        THEN [ret |-> [kind |-> "raise", exc |-> "ValueError", message |-> err],
              daily_spent |-> r.daily_spent, monthly_spent |-> r.monthly_spent,
              tx_count |-> tx]
        ELSE Evaluate(NormVendor(q.vendor), q.amount_cents.n, NormCurrency(q.currency),
                      r.daily_spent, r.monthly_spent, tx)

BudgetNumbers(b) ==
    <<b.daily.limit_cents, b.daily.spent_cents, b.daily.remaining_cents,
      b.monthly.limit_cents, b.monthly.spent_cents, b.monthly.remaining_cents>>

\* C14: get_budget reports as daily.spent_cents the sum of the amounts of
\* the APPROVED spends of the day, denied and rejected spends adding
\* nothing, and as monthly.spent_cents the same sum when the engine has
\* lived within one UTC day; remaining_cents = limit_cents - spent_cents
\* for both; get_budget leaves the counters as the rollover step left them,
\* and a get_budget that directly follows a get_budget of the same day
\* returns the same numbers.
C14_BudgetReportsApprovedSum ==
    [][IsGetBudget =>
          /\ ret'.kind = "budget"
          /\ ret'.daily.spent_cents = approved_today
          /\ ret'.daily.limit_cents = daily_limit
          /\ ret'.daily.remaining_cents = ret'.daily.limit_cents - ret'.daily.spent_cents
          /\ today = 0 => ret'.monthly.spent_cents = approved_today
          /\ ret'.monthly.limit_cents = monthly_limit
          /\ ret'.monthly.remaining_cents =
                ret'.monthly.limit_cents - ret'.monthly.spent_cents
          /\ daily_spent' = DailyAfterRollover
          /\ monthly_spent' = MonthlyAfterRollover
          /\ tx_count' = tx_count
          /\ (call.op = "get_budget" /\ start_date = today) =>
                BudgetNumbers(ret') = BudgetNumbers(ret)]_vars

\* a budget report after two approvals on the engine's first day: spent is
\* the sum of the two approved amounts, for the day and for the month
C14_Witness ==
    /\ call.op = "get_budget" /\ ret.kind = "budget"
    /\ today = 0
    /\ tx_count = 2
    /\ ret.daily.spent_cents = 2
    /\ ret.daily.remaining_cents = daily_limit - 2
    /\ ret.monthly.spent_cents = 2

\* the step re-issues the last spend, DENIED with a retry_with, with the
\* same vendor and currency and the suggested amount, on the same day and
\* with no call in between
IsRetry ==
    /\ IsSpend
    /\ call.op = "spend" /\ ret.kind = "record"
    /\ ret.decision = "DENIED" /\ ret.retry_with # None
    /\ start_date = today
    /\ call'.vendor = call.vendor
    /\ call'.currency = call.currency
    /\ call'.amount_cents = PyInt(ret.retry_with[1].amount_cents)

\* C15: a spend DENIED with a retry_with suggestion, immediately re-issued
\* with the same vendor and currency and amount_cents =
\* retry_with.amount_cents, is APPROVED.
C15_RetryIsApproved ==
    [][IsRetry => (ret'.kind = "record" /\ ret'.decision = "APPROVED")]_vars

\* C16: reset leaves daily_spent = monthly_spent = tx_count = 0 and the
\* stored day = today, with limits, currency, cap and allow-list unchanged;
\* no step changes the configuration; a counter decreases only in reset, or
\* in the rollover of a spend or get_budget called on a new date (the
\* monthly one only on the first day of a month); tx_count decreases only
\* in reset.
C16_ResetAndNothingElse ==
    [][/\ IsReset =>
            /\ daily_spent' = 0 /\ monthly_spent' = 0 /\ tx_count' = 0
            /\ start_date' = today
       /\ UNCHANGED config
       /\ ~IsReset =>
            /\ tx_count' >= tx_count
            /\ daily_spent' < daily_spent =>
                  (IsSpend \/ IsGetBudget) /\ today # start_date
            /\ monthly_spent' < monthly_spent =>
                  (IsSpend \/ IsGetBudget) /\ today # start_date /\ DayOfMonth(today) = 1
            /\ today = start_date =>
                  (daily_spent' >= daily_spent /\ monthly_spent' >= monthly_spent)]_vars

\* a reset made on a later day by an engine that was called before, under
\* a mandate with a cap and an allow-list: the three counters are 0 and the
\* stored day is today
C16_Witness ==
    /\ call.op = "reset"
    /\ warned
    /\ today > 0 /\ start_date = today
    /\ daily_spent = 0 /\ monthly_spent = 0 /\ tx_count = 0
    /\ daily_limit > 0 /\ per_tx_max # None /\ allowed_vendors # None

\* C17: the SpendResult that Kora.spend returns in sandbox mode has the
\* attributes payment, seal and executable; for an APPROVED spend payment
\* is there with the sandbox IBAN, whatever the vendor, seal is there and
\* executable is true; for a DENIED spend payment and seal are None and
\* executable is false.
C17_ResultExposesPayment ==
    [][(IsSpend /\ ret'.kind = "record") =>
          \A sr \in {KoraSpend(ret').value} :
              /\ HasAttr(sr, "payment") /\ HasAttr(sr, "seal") /\ HasAttr(sr, "executable")
              /\ sr.decision = "APPROVED" =>
                    /\ sr.payment # None
                    /\ sr.payment[1].iban = "XX00SANDBOX0000000001"
                    /\ sr.seal # None
                    /\ sr.executable = TRUE
              /\ sr.decision = "DENIED" =>
                    /\ sr.payment = None
                    /\ sr.seal = None
                    /\ sr.executable = FALSE]_vars

\* C18: stderr counts the '[KORA SANDBOX]' lines printed by the engine. An
\* engine that was not called yet has printed none; after any spend
\* (approved, denied or rejected by validation) or get_budget the count is
\* exactly 1, so the first such call prints the line and no later one does;
\* reset and the passing of days print nothing.
C18_WarnsExactlyOnce ==
    [][/\ call.op = "none" => stderr = 0
       /\ (IsSpend \/ IsGetBudget) => stderr' = 1
       /\ ~(IsSpend \/ IsGetBudget) => stderr' = stderr]_vars

\* a get_budget on a later day, after approved spends: several calls, one
\* line
C18_Witness ==
    /\ call.op = "get_budget"
    /\ today > 0
    /\ tx_count > 0
    /\ stderr = 1

\* the step is the return of canonicalize(call.obj)
IsCanonicalize == call.op = "canonicalize" /\ ret = NoRet /\ ret'.kind = "bytes"

\* the keys of every dict of v are in ascending code-point order
RECURSIVE KeysAscending(_)
KeysAscending(v) ==
    CASE v.t = "dict" ->
            /\ \A i \in 1..(Len(v.items) - 1) : StrLess(v.items[i][1], v.items[i + 1][1])
            /\ \A i \in 1..Len(v.items) : KeysAscending(v.items[i][2])
      [] v.t = "list" -> \A i \in 1..Len(v.items) : KeysAscending(v.items[i])
      [] OTHER -> TRUE

\* C19: canonicalize returns the same bytes for all values that differ only
\* in the insertion order of dict keys, at any depth and inside lists; what
\* it writes has the keys of every dict in code-point order and no
\* whitespace; list order is kept, so a value whose lists are reversed gets
\* other bytes unless it has the same content; canonicalize({"b":2,"a":1})
\* is {"a":1,"b":2}, and the key "B" is written before the key "a".
C19_CanonicalBytes ==
    [][IsCanonicalize =>
          /\ \A y \in Reorderings(call.obj) : Canonicalize(y) = ret'.value
          /\ \A y \in {SortKeysDeep(call.obj)} :
                /\ KeysAscending(y)
                /\ SameContent(y, call.obj)
                /\ ret'.value = EncodeUtf8(Dumps(y))
          /\ \A i \in 1..Len(ret'.value) : ret'.value[i] \notin {32, 9, 10, 13}
          /\ \A y \in {ReverseLists(call.obj)} :
                ~SameContent(y, call.obj) => Canonicalize(y) # ret'.value
          /\ call.obj = JDict(<<<<<<"b">>, JInt(2)>>, <<<<"a">>, JInt(1)>>>>) =>
                ret'.value = <<123, 34, 97, 34, 58, 49, 44, 34, 98, 34, 58, 50, 125>>
          /\ call.obj = JDict(<<<<<<"a">>, JInt(1)>>, <<<<"B">>, JInt(2)>>>>) =>
                ret'.value = <<123, 34, 66, 34, 58, 50, 44, 34, 97, 34, 58, 49, 125>>]_vars

\* canonicalize([{"b":2,"a":1},1]) has returned [{"a":1,"b":2},1]
C19_Witness ==
    /\ call.op = "canonicalize"
    /\ call.obj = JList(<<JDict(<<<<<<"b">>, JInt(2)>>, <<<<"a">>, JInt(1)>>>>), JInt(1)>>)
    /\ ret.kind = "bytes"
    /\ ret.value = <<91, 123, 34, 97, 34, 58, 49, 44, 34, 98, 34, 58, 50, 125, 44, 49, 93>>


IsVerify == call.op = "sign_verify" /\ ret.kind = "signature" /\ ret'.kind = "bool"

\* C20: signing a message with the signing key of a key pair, handed over
\* directly or parsed from its key string, and verifying the signature over
\* the same message with the base64 of the pair's public key gives True;
\* no step on the way raises.
C20_SignVerifyRoundTrip ==
    [][/\ call.op = "sign_verify" => ret'.kind # "raise"
       /\ IsVerify => ret'.value = TRUE]_vars

\* a signature over the canonical bytes of a dict, made with a parsed key,
\* has been verified
C20_Witness ==
    /\ call.op = "sign_verify" /\ ret.kind = "bool" /\ ret.value = TRUE
    /\ ~IsNone(call.key_string)
    /\ \E x \in SignedValues : Len(x.items) = 2 /\ call.message = Canonicalize(x)

IsVerifySignature == call.op = "verify_signature" /\ ret = NoRet /\ ret'.kind # "none"

\* the call verifies the signature of a message under a seed over that very
\* message with the public key of that seed, and the library does not fail
ExactCall ==
    /\ ~IsNone(call.signed) /\ ~IsNone(call.key_of) /\ IsNone(call.fault)
    /\ call.message = Get(call.signed).message
    /\ Get(call.key_of) = Get(call.signed).seed

\* C21: verify_signature returns True only for the exact message signed and
\* the public key of the signing key: over a message that differs in a
\* byte or in length, or with another public key, it returns False.
C21_VerificationIsSound ==
    [][IsVerifySignature => (ret' = Bool(TRUE) <=> ExactCall)]_vars

\* a message that differs in one byte from the signed one has been rejected
\* under the public key of the signing key
C21_Witness ==
    /\ call.op = "verify_signature" /\ ret = Bool(FALSE)
    /\ ~IsNone(call.signed) /\ ~IsNone(call.key_of)
    /\ Get(call.key_of) = Get(call.signed).seed
    /\ Len(call.message) = Len(Get(call.signed).message)
    /\ call.message # Get(call.signed).message

\* C22: verify_signature never raises: base64 that does not decode, a key
\* or a signature of the wrong length, None, and a failure inside the
\* library all give False.
C22_VerifyNeverRaises ==
    [][IsVerifySignature =>
          /\ ret'.kind = "bool"
          /\ (IsNone(call.signed) \/ IsNone(call.key_of) \/ ~IsNone(call.fault))
                => ret' = Bool(FALSE)]_vars

\* a signature that is no base64 has been answered with False
C22_Witness ==
    /\ call.op = "verify_signature" /\ ret = Bool(FALSE)
    /\ call.signature_b64 = PyStr(<<"A">>)
    /\ ~IsNone(call.key_of)

IsVerifySeal == call.op = "verify_seal" /\ ret = NoRet /\ ret'.kind # "none"

\* C23: Kora.verify_seal never raises: it returns False for a result without
\* seal, and a bool for every seal, key and record, malformed or not.
C23_SealVerifierNeverRaises ==
    [][IsVerifySeal =>
          /\ ret'.kind = "bool"
          /\ IsNone(call.result.notary_seal) => ret' = Bool(FALSE)]_vars

\* the names of attributes that the signed_fields of a seal hold
SignedNames(seal) ==
    IF IsNone(Elements(seal.signed_fields)) THEN {}
    ELSE {n \in DOMAIN FieldNames :
             /\ ~IsNone(AttributeOf(n))
             /\ \E i \in 1..Len(Get(Elements(seal.signed_fields))) :
                   Get(Elements(seal.signed_fields))[i] = JStr(FieldNames[n])}

\* two results agree on every attribute named in the signed_fields of a seal
AgreeOnSigned(a, b, seal) ==
    \A n \in SignedNames(seal) : a[Get(AttributeOf(n))] = b[Get(AttributeOf(n))]

\* C24: the outcome of Kora.verify_seal is the same for every result that
\* carries the same seal and agrees on the attributes named in its
\* signed_fields: another or a corrupted value of an attribute that is not
\* named changes nothing.
C24_UnsignedFieldsDoNotMatter ==
    [][IsVerifySeal /\ ~IsNone(call.result.notary_seal) =>
          \A other \in Altered(call.result) :
             AgreeOnSigned(call.result, other, Get(call.result.notary_seal))
                => KoraVerifySeal(other, call.kora_public_key) = ret']_vars

\* a seal over intent_id and status has been verified on a result whose
\* amount_cents was replaced by a value without a JSON form
C24_Witness ==
    /\ call.op = "verify_seal" /\ ret = Bool(TRUE)
    /\ ~IsNone(call.issued)
    /\ Get(call.issued).names = <<"intent_id", "status">>
    /\ call.result.amount_cents = JObject

\* the result differs from the record the seal was issued over in an
\* attribute named in signed_fields, its value being one with a JSON form
SignedFieldAltered ==
    /\ ~IsNone(call.issued)
    /\ \E i \in 1..Len(Get(call.issued).names) :
          \E n \in {Get(call.issued).names[i]} :
             /\ ~IsNone(AttributeOf(n))
             /\ call.result[Get(AttributeOf(n))] # Get(call.issued).record[Get(AttributeOf(n))]
             /\ Serializable(call.result[Get(AttributeOf(n))])

\* C25: with a seal the server issued over the declared subset of a record
\* and the server's public key, Kora.verify_seal returns False for a result
\* in which an attribute named in signed_fields has another value than the
\* record had; so for signed_fields = [intent_id, status] and another
\* decision or intent_id.
C25_AlteredSignedFieldIsDetected ==
    [][IsVerifySeal /\ SignedFieldAltered => ret' = Bool(FALSE)]_vars

\* the decision of a record sealed as APPROVED over intent_id and status
\* reads DENIED, and verification has returned False
C25_Witness ==
    /\ call.op = "verify_seal" /\ ret = Bool(FALSE)
    /\ ~IsNone(call.issued)
    /\ Get(call.issued).names = <<"intent_id", "status">>
    /\ Get(call.issued).record.decision = JStr(DecisionApproved)
    /\ call.result.decision = JStr(DecisionDenied)

\* C26: every attribute of the record that signed_fields names is in the
\* payload Kora.verify_seal reconstructs, under that name and with the
\* record's value; the decision both as status and as decision.
C26_EligibleFieldsCovered ==
    [][IsVerifySeal /\ ret'.kind = "bool" /\ ~IsNone(call.result.notary_seal) =>
          \A n \in SignedNames(Get(call.result.notary_seal)) :
             \E payload \in {DecisionPayload(
                                Get(Elements(Get(call.result.notary_seal).signed_fields)),
                                FieldMap(call.result))} :
                /\ HasKey(payload, FieldNames[n])
                /\ ItemOf(payload, FieldNames[n]) = call.result[Get(AttributeOf(n))]]_vars

\* the orders of a list of up to three elements, and the reverse of a
\* longer one
Reordered(items) ==
    IF Len(items) <= 3
    THEN {[i \in 1..Len(items) |-> items[p[i]]] : p \in Orders(Len(items))}
    ELSE {[i \in 1..Len(items) |-> items[Len(items) + 1 - i]]}

\* e is a str that is no key of field_map
IsUnknownName(e) ==
    e.t = "str" /\ \A i \in 1..Len(FieldMapEntries) : FieldNames[FieldMapEntries[i][1]] # e.s

IsKnownEntry(e) == ~IsUnknownName(e)

\* C27: a name in signed_fields that is no key of field_map is left out of
\* the payload without error: Kora.verify_seal gives what it gives for the
\* seal without these names, and what it gives for the names in any other
\* order.
C27_UnknownNamesAndOrder ==
    [][IsVerifySeal /\ ~IsNone(call.result.notary_seal)
          /\ Get(call.result.notary_seal).signed_fields.t = "list" =>
          \A fields \in {SelectSeq(Get(call.result.notary_seal).signed_fields.items,
                                   IsKnownEntry)}
                        \cup Reordered(Get(call.result.notary_seal).signed_fields.items) :
             KoraVerifySeal(
                 [call.result EXCEPT !.notary_seal =
                     Some([Get(call.result.notary_seal) EXCEPT !.signed_fields = JList(fields)])],
                 call.kora_public_key) = ret']_vars

\* a seal declaring nonce, status and intent_id has been verified on the
\* record it was issued over
C27_Witness ==
    /\ call.op = "verify_seal" /\ ret = Bool(TRUE)
    /\ ~IsNone(call.issued)
    /\ Get(call.issued).names = <<"nonce", "status", "intent_id">>

IsParseAgentKey == call.op = "parse_agent_key" /\ ret = NoRet /\ ret'.kind # "none"

\* the rules of a key string in the order they are stated, each with what
\* the way the string was built says of it: the prefix; base64 of UTF-8
\* text; a separator; an agent id before it; after it hexadecimal digits
\* only, two a byte; 32 bytes
KeyRules ==
    <<call.prefix = AGENT_SK_PREFIX,
      call.base64 = "exact" /\ call.utf8,
      call.separators >= 1,
      Len(call.agent_id) > 0,
      ~IsNone(call.hex.bytes),
      ~IsNone(call.hex.bytes) /\ Len(Get(call.hex.bytes)) = SeedBytes>>

\* the message of the ValueError for each rule
RuleMessages ==
    <<"Agent key must start with 'kora_agent_sk_'",
      "Invalid base64 in agent key",
      "Agent key payload missing ':' separator",
      "Agent key has empty agent_id",
      "Invalid hex in private key",
      "Private key must be 32 bytes">>

FirstViolated == CHOOSE i \in 1..6 : ~KeyRules[i] /\ \A j \in 1..(i - 1) : KeyRules[j]

\* C28: parse_agent_key returns the identity, with the agent id and the
\* scalar that were encoded, exactly when the key string keeps every rule
\* (prefix, base64 of UTF-8 text, one separator, an agent id before it, 32
\* bytes in hexadecimal after it); otherwise it raises the format error of
\* the first rule that is broken, in that order.
C28_ParseAgentKeyRules ==
    [][IsParseAgentKey =>
          ret' = IF \A i \in 1..6 : KeyRules[i]
                 THEN [kind |-> "identity", agent_id |-> call.agent_id,
                       signing_key |-> SigningKey(Get(call.hex.bytes))]
                 ELSE ValueError(RuleMessages[FirstViolated])]_vars

IsAuthorizeBegin == kora.pc = "idle" /\ kora'.pc = "loop"
IsAuthorizeAttempt == kora.pc = "loop" /\ Len(kora'.sent) = Len(kora.sent) + 1

\* the value that the signed_fields of a request hold under a name
SignedValue(request, name) == ItemOf(request.signed_fields.items, name)

\* two requests whose signed_fields hold the same names in the same order
\* and the same value under each but nonce, and another nonce
DifferOnlyInNonce(a, b) ==
    /\ Len(a.signed_fields.items) = Len(b.signed_fields.items)
    /\ \A i \in 1..Len(a.signed_fields.items) :
          /\ a.signed_fields.items[i][1] = b.signed_fields.items[i][1]
          /\ a.signed_fields.items[i][1] # FieldNames.nonce
                => a.signed_fields.items[i][2] = b.signed_fields.items[i][2]
    /\ SignedValue(a, FieldNames.nonce) # SignedValue(b, FieldNames.nonce)

\* the signature sent with a request is the one over the canonical bytes
\* of its own signed_fields
SignedAgain(k, request) ==
    VerifySignature(Canonicalize(request.signed_fields),
                    PyStr(request.headers.signature),
                    PyStr(B64Encode(PublicKeyOf(k.signing_key.seed)))) = Bool(TRUE)

\* C29: every attempt of one authorize call carries the intent_id drawn for
\* the call; any two attempts of the call differ in their nonce and in
\* nothing else of the signed payload, and each carries the signature of
\* its own payload; the intent_id of a call is none of those of the calls
\* before.
C29_SameIntentFreshNonce ==
    [][/\ IsAuthorizeAttempt =>
            /\ \A i \in 1..Len(kora'.sent) :
                  /\ SignedValue(kora'.sent[i], FieldNames.intent_id) = JStr(kora'.intent_id)
                  /\ ItemOf(kora'.sent[i].body.items, FieldNames.intent_id) = JStr(kora'.intent_id)
            /\ kora'.intent_id = kora.intent_id
            /\ SignedAgain(kora', kora'.sent[Len(kora'.sent)])
            /\ \A i \in 1..Len(kora.sent) :
                  /\ DifferOnlyInNonce(kora'.sent[i], kora'.sent[Len(kora'.sent)])
                  /\ kora'.sent[i].headers.signature
                        # kora'.sent[Len(kora'.sent)].headers.signature
       /\ IsAuthorizeBegin =>
            \A i \in 1..Len(kora.intents) : kora.intents[i] # kora'.intent_id]_vars

\* the third attempt of the second authorize call has been made
C29_Witness ==
    /\ kora.pc # "none"
    /\ Len(kora.intents) = 2
    /\ Len(kora.sent) = 3

\* the outcome of requests.post in the attempt that has been made
Posted == Get(kora'.outcome)

\* C30: an authorize call sends at most max_retries + 1 requests; an
\* attempt after the first is made only after a connection error or a
\* timeout of the one before; a response with a status of 400 or more
\* raises KoraError and ends the call, any other exception ends it and is
\* raised, a parsed response ends it and is returned, and a network error
\* in the last attempt allowed ends it and is raised.
C30_RetriesAndErrors ==
    [][IsAuthorizeAttempt =>
          /\ Len(kora'.sent) <= kora.max_retries + 1
          /\ Len(kora.sent) > 0 =>
                /\ Get(kora.outcome).kind = "raise"
                /\ Get(kora.outcome).exc \in NetworkErrors
          /\ (Posted.kind = "response" /\ Posted.status_code >= 400) =>
                /\ ret'.kind = "raise" /\ ret'.exc = "KoraError"
                /\ ret'.status_code = Posted.status_code
                /\ kora'.pc = "idle"
          /\ (Posted.kind = "raise" /\ Posted.exc \notin NetworkErrors) =>
                ret' = Raise(Posted.exc) /\ kora'.pc = "idle"
          /\ ret'.kind = "AuthorizationResult" =>
                /\ Posted.kind = "response" /\ Posted.status_code < 400
                /\ kora'.pc = "idle"
          /\ (Posted.kind = "raise" /\ Posted.exc \in NetworkErrors) =>
                IF Len(kora'.sent) = kora.max_retries + 1
                THEN ret' = Raise(Posted.exc) /\ kora'.pc = "idle"
                ELSE ret' = NoRet /\ kora'.pc = "loop"]_vars

\* the request that the attempt just made has sent
LastSent == kora'.sent[Len(kora'.sent)]

\* C31: every item of the body of an authorize request is an item of the
\* signed payload of that request, under the same name with the same
\* value, and the X-Agent-Signature header is the signature of that
\* payload.
C31_BodyCoveredBySignature ==
    [][IsAuthorizeAttempt =>
          /\ SignedAgain(kora', LastSent)
          /\ \A i \in 1..Len(LastSent.body.items) :
                /\ HasKey(LastSent.signed_fields.items, LastSent.body.items[i][1])
                /\ SignedValue(LastSent, LastSent.body.items[i][1]) = LastSent.body.items[i][2]]_vars

IsParseResponse == call.op = "parse_response" /\ ret = NoRet /\ ret' # NoRet
IsKoraSpend == call.op = "Kora.spend" /\ ret = NoRet /\ ret' # NoRet

\* a field that a response does not carry, or carries empty
EmptyValues == {PyNone, PyStr(<<>>), PyInt(0)}
Carries(d, name) == name \in DOMAIN d /\ d[name] \notin EmptyValues

\* C32: parse_response gives a result with approved = true only if the
\* decision of the response, or its status where the decision is absent
\* or empty, is exactly APPROVED; a response with neither field is parsed
\* as DENIED; executable is false where the response does not carry it;
\* and the SpendResult of Kora.spend has approved = true iff its decision
\* is APPROVED.
C32_ParseFailsClosed ==
    [][/\ IsParseResponse =>
            /\ ret'.kind = "AuthorizationResult"
            /\ ResultApproved(ret'.value) =>
                  IF Carries(call.raw.value, "decision")
                  THEN call.raw.value.decision = PyStr(DecisionApproved)
                  ELSE /\ Carries(call.raw.value, "status")
                       /\ call.raw.value.status = PyStr(DecisionApproved)
            /\ (~Carries(call.raw.value, "decision") /\ ~Carries(call.raw.value, "status"))
                  => ret'.value.decision = PyStr(DecisionDenied)
            /\ "executable" \notin DOMAIN call.raw.value => ret'.value.executable = FALSE
       /\ IsKoraSpend =>
            /\ ret'.kind = "SpendResult"
            /\ ret'.value.approved = (ret'.value.decision = PyStr(DecisionApproved))
            /\ ret'.value.approved =>
                  IF Carries(call.raw.value, "decision")
                  THEN call.raw.value.decision = PyStr(DecisionApproved)
                  ELSE /\ Carries(call.raw.value, "status")
                       /\ call.raw.value.status = PyStr(DecisionApproved)]_vars

\* Kora.spend has returned an approved SpendResult for a response whose
\* decision is empty and whose status is APPROVED
C32_Witness ==
    /\ call.op = "Kora.spend"
    /\ ret.kind = "SpendResult" /\ ret.value.approved
    /\ "decision" \in DOMAIN call.raw.value /\ call.raw.value.decision = PyStr(<<>>)
    /\ "executable" \notin DOMAIN call.raw.value

\* C33: every step of an engine whose methods are called one after the
\* other, begun with both counters at zero, leaves daily_spent at most
\* monthly_spent; the step adds one amount to both counters (after the
\* rollover of a new day, if any), or leaves the monthly counter and
\* zeroes the daily one or leaves it too, or zeroes both.
C33_DailyAtMostMonthly ==
    [][/\ daily_spent' <= monthly_spent'
       /\ \/ \E amount \in 0..MaxAmount :
                /\ daily_spent' = DailyAfterRollover + amount
                /\ monthly_spent' = MonthlyAfterRollover + amount
          \/ daily_spent' \in {0, daily_spent} /\ monthly_spent' = monthly_spent
          \/ daily_spent' = 0 /\ monthly_spent' = 0]_vars

\* spending of an earlier day and of this day is on the counters, after a
\* day on which the monthly counter was zeroed
C33_Witness ==
    /\ 0 < daily_spent /\ daily_spent < monthly_spent
    /\ today > DaysInMonth

\* C34: every APPROVED record holds a vendor_id that is not empty, and a
\* call whose vendor is empty after normalization is not approved and
\* leaves the counters as the rollover left them.
C34_ApprovedVendorNotEmpty ==
    [][IsSpend =>
          /\ (ret'.kind = "record" /\ ret'.decision = "APPROVED") => Len(ret'.vendor_id) > 0
          /\ (call'.vendor.t = "str" /\ Len(NormVendor(call'.vendor)) = 0) =>
                /\ ~(ret'.kind = "record" /\ ret'.decision = "APPROVED")
                /\ daily_spent' = DailyAfterRollover
                /\ monthly_spent' = MonthlyAfterRollover
                /\ tx_count' = tx_count]_vars

\* the step is a re-submission that follows the retry_with of the denial
\* before it
IsRetryCall == retries' = retries + 1
DeniedWithRetry(r) == r.kind = "record" /\ r.decision = "DENIED" /\ ~IsNone(r.retry_with)

\* C35: a re-submission with the suggested amount is APPROVED, or DENIED
\* with a suggested amount strictly smaller than the one followed, or
\* DENIED without retry_with; a chain has at most 3 re-submissions, the
\* third of which is not denied with a further suggestion.
C35_RetryChainConverges ==
    [][IsRetryCall =>
          /\ ret'.kind = "record"
          /\ \/ ret'.decision = "APPROVED"
             \/ ret'.decision = "DENIED" /\ IsNone(ret'.retry_with)
             \/ /\ ret'.decision = "DENIED" /\ ~IsNone(ret'.retry_with)
                /\ Get(ret'.retry_with).amount_cents < Get(ret.retry_with).amount_cents
          /\ retries' <= 3
          /\ retries' = 3 => ~DeniedWithRetry(ret')]_vars

\* the third re-submission of a chain has been approved: the amount asked
\* first was above the cap, the cap above what was left of the day, and
\* that above what was left of the month
C35_Witness ==
    /\ retries = 3
    /\ ret.kind = "record" /\ ret.decision = "APPROVED"

\* C36: Kora.verify_seal gives for a seal the result it gives for any seal
\* that differs from it in nothing but algorithm, public_key_id, timestamp
\* and payload_hash, the record and the public key being the same.
C36_SealMetadataIgnored ==
    [][(IsVerifySeal /\ "unvaried" \in DOMAIN call) =>
          ret' = KoraVerifySeal([call.result EXCEPT !.notary_seal = Some(call.unvaried)],
                                call.kora_public_key)]_vars

\* a seal that declares the algorithm none has been accepted
C36_Witness ==
    /\ call.op = "verify_seal" /\ "unvaried" \in DOMAIN call
    /\ ret = Bool(TRUE)
    /\ Get(call.result.notary_seal).algorithm = <<"n", "o", "n", "e">>

IsObserve == kora.pc = "auto" /\ kora'.calls = kora.calls + 1
ObservedPair == <<call'.vendor.s, Get(call'.error)>>

\* C37: a failed observe for a pair (vendor, error) prints a
\* KORA_SCAN_WARN line iff no line for that pair was printed in the 60
\* seconds before; so the first failure of a pair is reported, two lines
\* of a pair are at least 60 seconds apart, and the lines of other pairs
\* do not count.
C37_WarningThrottle ==
    [][(IsObserve /\ ~IsNone(call'.error)) =>
          (stderr' = stderr + 1) =
              (\/ ObservedPair \notin DOMAIN kora.lines
               \/ kora'.now - kora.lines[ObservedPair] >= THROTTLE_SECONDS)]_vars

\* the outcome of requests.post in the observe just made
Observed == call'.outcome

\* C38: observe raises nothing: it returns {"status": "error"} for an
\* exception of requests.post, for every status of 400 or more, and for a
\* body that resp.json() cannot decode, and it returns the body of the
\* response only for a status below 400.
C38_ObserveNeverRaises ==
    [][IsObserve =>
          /\ ret'.kind = "dict"
          /\ Observed.kind = "raise" => ret'.value = [status |-> "error"]
          /\ (Observed.kind = "response" /\ Observed.status_code >= 400)
                => ret'.value = [status |-> "error"]
          /\ (Observed.kind = "response" /\ IsNone(Observed.json))
                => ret'.value = [status |-> "error"]
          /\ ret'.value # [status |-> "error"] =>
                /\ Observed.kind = "response" /\ Observed.status_code < 400
                /\ ret'.value = Get(Observed.json)]_vars

\* observe has returned the error dict for a response with status 200
\* whose body is no JSON, after an earlier call
C38_Witness ==
    /\ kora.pc = "auto" /\ kora.calls > 1
    /\ call.outcome.kind = "response" /\ call.outcome.status_code = 200
    /\ IsNone(call.outcome.json)
    /\ ret.kind = "dict" /\ ret.value = [status |-> "error"]
====
